---- MODULE Spec2Model ----
(***************************************************************************)
(* Work-hours and budgeting tracker (work-to-buy): the day-entry handlers, *)
(* the period indexer and the payroll computation of App.tsx.              *)
(*                                                                         *)
(* Representation of the program's numbers.                                *)
(*   hours      whole multiples of 1/HourScale hour.  1/300 h is the least *)
(*              common grain of a minute (1/60 h) and of round2 (1/100 h). *)
(*   money      stored amounts are whole cents; unrounded amounts are      *)
(*              whole multiples of 1/MoneyScale cent.                      *)
(*   hourlyRate whole cents per hour.                                      *)
(*   rates      INCOME_TAX_RATE etc. in units of 1/RateScale.              *)
(* The program computes with IEEE-754 doubles.  A double carries a         *)
(* relative error of about 1e-16, which cannot move a value across a       *)
(* rounding boundary unless the exact value lies on the boundary.  round2  *)
(* is therefore modelled as the exact half-up rounding everywhere except   *)
(* at an exact half-way value, where the double may lie on either side and *)
(* both neighbours are possible results.                                   *)
(***************************************************************************)
EXTENDS Integers, Sequences, FiniteSets, TLC

(* ------------------------------ constants ------------------------------ *)
INCOME_TAX_RATE == 11700
EMPLOYEE_INSURANCE_RATE == 1640
CPP_RATE == 5482
BIWEEKLY_TAXFREE_THRESHOLD == 88
BIWEEKLY_BONUS_RATE == 4
WEEKLY_OVERTIME_THRESHOLD == 44
OVERTIME_MULTIPLIER == 15
DEFAULT_LUNCH_MINUTES == 30

HourScale == 3 * 100
MoneyScale == 75 * 100
RateScale == 1000 * 100

\* money units earned per hour unit and per cent of hourly rate, with the
\* 4% bonus multiplier applied: (1 + BIWEEKLY_BONUS_RATE) / HourScale cents
BonusFactor == (MoneyScale * (100 + BIWEEKLY_BONUS_RATE)) \div (100 * HourScale)
\* the same for an overtime hour (OVERTIME_MULTIPLIER is in tenths)
OvertimeFactor == (BonusFactor * OVERTIME_MULTIPLIER) \div 10

(* --------------------------- optional values --------------------------- *)
\* null / undefined / a missing key: the empty tuple; a present value v: <<v>>
None == <<>>
Some(v) == <<v>>
IsNull(o) == o = <<>>
Val(o) == o[1]

Max(a, b) == IF a >= b THEN a ELSE b
Min(a, b) == IF a <= b THEN a ELSE b

(* ------------------------------ rounding ------------------------------- *)
\* Math.round of the value q + r/d (0 <= r < d): the possible results
MathRound(q, r, d) ==
  IF 2 * r = d THEN {q, q + 1}
  ELSE IF 2 * r > d THEN {q + 1}
  ELSE {q}

\* round2 of an amount of n money units: the possible results in whole cents
round2(n) == MathRound(n \div MoneyScale, n % MoneyScale, MoneyScale)

\* round2 of (n money units times a rate): the possible results in whole cents.
\* The product is taken in two parts, whole cents and the rest, so that no
\* intermediate value leaves the 32-bit range.
round2Rate(n, rate) ==
  LET whole == (n \div MoneyScale) * rate
      t == (whole % RateScale) * MoneyScale + (n % MoneyScale) * rate
  IN  MathRound((whole \div RateScale) + (t \div (MoneyScale * RateScale)),
                t % (MoneyScale * RateScale), MoneyScale * RateScale)

\* round2 of a number of hours (in hour units), in hour units: hundredths of
\* an hour are HourScale/100 units.  No value of the form u/300 lies half-way
\* between two hundredths, so the result is unique.
round2Hours(u) ==
  LET g == HourScale \div 100
  IN  g * ((2 * u + g) \div (2 * g))

(* ------------------------------ calendar ------------------------------- *)
\* a date string "YYYY-MM-DD" is the tuple <<y, m, d>> of its three fields;
\* localeCompare on the fixed-width strings is the lexicographic order
Ymd(y, m, d) == <<y, m, d>>

DateLess(a, b) ==
  \/ a[1] < b[1]
  \/ a[1] = b[1] /\ a[2] < b[2]
  \/ a[1] = b[1] /\ a[2] = b[2] /\ a[3] < b[3]

IsLeap(y) == (y % 4 = 0 /\ y % 100 # 0) \/ y % 400 = 0

\* new Date(year, month + 1, 0).getDate(), month m counted from 1
DaysInMonth(y, m) ==
  IF m = 2 THEN (IF IsLeap(y) THEN 29 ELSE 28)
  ELSE IF m \in {4, 6, 9, 11} THEN 30 ELSE 31

\* days from 1970-01-01 to the civil date y-m-d
DayNumber(y, m, d) ==
  LET yy == IF m <= 2 THEN y - 1 ELSE y
      mp == IF m <= 2 THEN m + 9 ELSE m - 3
  IN  365 * yy + (yy \div 4) - (yy \div 100) + (yy \div 400)
        + ((153 * mp + 2) \div 5) + d - 1 - 719468

\* Date.getDay() of the local date: 0 = Sunday
getDay(y, m, d) == (DayNumber(y, m, d) + 4) % 7

(* ---------------------------- time normalizer --------------------------- *)
\* hour units subtracted per lunch minute: lunchMinutes / 60 hours
UnitsPerMinute == HourScale \div 60

\* a DayHours object; an optional field is None when null or missing
DayEntry(date, start, end, hours, lunch, lunchMinutes, originalHours) ==
  [date |-> date, start |-> start, end |-> end, hours |-> hours,
   lunch |-> lunch, lunchMinutes |-> lunchMinutes, originalHours |-> originalHours]

\* Math.round of n half minutes, in whole minutes
RoundHalfMinutes(n) == (n + 1) \div 2

\* a lunch break with no upper limit
clampLunchMinutesUnbounded(value) ==
  IF IsNull(value) THEN DEFAULT_LUNCH_MINUTES
  ELSE Max(0, RoundHalfMinutes(Val(value)))

\* clampLunchMinutes(value): value is None or Some(n), n in half minutes
clampLunchMinutes(value) ==
  IF IsNull(value) THEN DEFAULT_LUNCH_MINUTES
  ELSE Max(0, Min(180, RoundHalfMinutes(Val(value))))

\* getLunchMinutes(entry): entry is None (undefined) or Some(DayHours)
getLunchMinutes(entry) ==
  IF IsNull(entry) THEN 0
  ELSE IF ~IsNull(Val(entry).lunchMinutes)
         THEN clampLunchMinutes(Some(2 * Val(Val(entry).lunchMinutes)))
  ELSE IF Val(entry).lunch = Some(FALSE) THEN 0
  ELSE DEFAULT_LUNCH_MINUTES

\* the hours last stored taken for the hours entered
getOriginalHoursLastStored(entry) ==
  IF ~IsNull(entry.hours) /\ IsNull(entry.start) /\ IsNull(entry.end)
    THEN entry.hours
  ELSE entry.originalHours

\* getOriginalHours(entry)
getOriginalHours(entry) ==
  IF ~IsNull(entry.originalHours) THEN entry.originalHours
  ELSE IF ~IsNull(entry.hours) /\ IsNull(entry.start) /\ IsNull(entry.end)
         THEN entry.hours
  ELSE None

\* "HH:mm".split(":").map(Number) -> sh * 60 + sm; a time is <<hh, mm>>
ClockMinutes(t) == t[1] * 60 + t[2]

\* nothing filtered out
OtherThanNone(prev, date) == prev

\* prev.filter(p => p.date !== date)
RECURSIVE OtherThan(_, _)
OtherThan(prev, date) ==
  IF prev = <<>> THEN <<>>
  ELSE IF Head(prev).date = date THEN OtherThan(Tail(prev), date)
  ELSE <<Head(prev)>> \o OtherThan(Tail(prev), date)

\* prev.find(p => p.date === date): None or Some(first match)
RECURSIVE Find(_, _)
Find(prev, date) ==
  IF prev = <<>> THEN None
  ELSE IF Head(prev).date = date THEN Some(Head(prev))
  ELSE Find(Tail(prev), date)

\* the list handleHourInput stores for a numeric raw value n (hour units)
HourInputResult(prev, date, n) ==
  LET existing == Find(prev, date)
      lunchMinutes == getLunchMinutes(existing)
      hours == Max(0, n - lunchMinutes * UnitsPerMinute)
  IN  OtherThan(prev, date) \o
        <<DayEntry(date, None, None, Some(hours), None, Some(lunchMinutes), Some(n))>>

\* a negative span stored as 0 hours
TimeInputHoursFloored(start, end, lunchMinutes) ==
  IF IsNull(start) \/ IsNull(end) THEN None
  ELSE Some(Max(0, (ClockMinutes(Val(end)) - lunchMinutes - ClockMinutes(Val(start)))
                     * UnitsPerMinute))

\* hours of a span start..end less lunch, as handleTimeInput computes it
\* (unrounded; null when negative or above 24)
TimeInputHours(start, end, lunchMinutes) ==
  IF IsNull(start) \/ IsNull(end) THEN None
  ELSE LET startMins == ClockMinutes(Val(start))
           endMins == ClockMinutes(Val(end)) - lunchMinutes
           hours == (endMins - startMins) * UnitsPerMinute
       IN  IF hours < 0 \/ hours > 24 * HourScale THEN None ELSE Some(hours)

\* the list handleTimeInput stores; value is None (picker cleared) or Some(time)
TimeInputResult(prev, date, field, value) ==
  LET found == Find(prev, date)
      existing == IF IsNull(found)
                    THEN DayEntry(date, None, None, None, None, None, None)
                    ELSE Val(found)
      lunchMinutes == getLunchMinutes(Some(existing))
      updated == [existing EXCEPT ![field] = value,
                                  !.lunchMinutes = Some(lunchMinutes)]
      hours == TimeInputHours(updated.start, updated.end, lunchMinutes)
  IN  OtherThan(prev, date) \o <<[updated EXCEPT !.hours = hours]>>

\* the list handleLunchMinutesInput stores for an empty raw value
LunchClearResult(prev, date) ==
  LET found == Find(prev, date)
      existing == IF IsNull(found)
                    THEN DayEntry(date, None, None, None, None, None, None)
                    ELSE Val(found)
  IN  OtherThan(prev, date) \o <<[existing EXCEPT !.lunchMinutes = None]>>

\* hours of a span as handleLunchMinutesInput computes it (rounded)
LunchInputSpanHours(start, end, lunchMinutes) ==
  LET startMins == ClockMinutes(Val(start))
      endMins == ClockMinutes(Val(end))
      hours == (endMins - startMins) * UnitsPerMinute - lunchMinutes * UnitsPerMinute
  IN  IF hours >= 0 /\ hours <= 24 * HourScale THEN Some(round2Hours(hours)) ELSE None

\* hours re-derived from originalHours by handleLunchMinutesInput
LunchInputDirectHours(originalHours, lunchMinutes) ==
  Max(0, round2Hours(originalHours - lunchMinutes * UnitsPerMinute))

\* the list handleLunchMinutesInput stores for a finite number (half minutes)
LunchInputResult(prev, date, parsed) ==
  LET lunchMinutes == clampLunchMinutes(Some(parsed))
      found == Find(prev, date)
      existing == IF IsNull(found)
                    THEN DayEntry(date, None, None, None, None, None, None)
                    ELSE Val(found)
      updated == [existing EXCEPT !.lunchMinutes = Some(lunchMinutes)]
      originalHours == getOriginalHours(updated)
      result ==
        IF ~IsNull(updated.start) /\ ~IsNull(updated.end)
          THEN [updated EXCEPT !.hours =
                  LunchInputSpanHours(updated.start, updated.end, lunchMinutes)]
        ELSE IF ~IsNull(originalHours) /\ IsNull(updated.start) /\ IsNull(updated.end)
          THEN [updated EXCEPT
                  !.originalHours = originalHours,
                  !.hours = Some(LunchInputDirectHours(Val(originalHours), lunchMinutes))]
        ELSE updated
  IN  OtherThan(prev, date) \o <<result>>

(* ---------------------------- period indexer ---------------------------- *)
\* day of the month of the first Sunday of month m of year y
FirstSunday(y, m) == 1 + ((7 - getDay(y, m, 1)) % 7)

\* Whether local midnight of the date is on daylight-saving time in the
\* browser's time zone tz.  "America/Toronto" moves its clocks forward at
\* 02:00 on the second Sunday of March and back at 02:00 on the first Sunday
\* of November; "UTC" never does.
MidnightIsDst(tz, date) ==
  /\ tz = "America/Toronto"
  /\ LET y == date[1]
         n == DayNumber(date[1], date[2], date[3])
         spring == DayNumber(y, 3, FirstSunday(y, 3) + 7)
         fall == DayNumber(y, 11, FirstSunday(y, 11))
     IN  n > spring /\ n <= fall

\* parseYmdLocal(dateStr).getTime(), in hours since the epoch: local midnight
LocalMidnightHours(tz, date) ==
  24 * DayNumber(date[1], date[2], date[3])
    + (IF tz = "UTC" THEN 0 ELSE IF MidnightIsDst(tz, date) THEN 4 ELSE 5)

\* the distance from the anchor counted either way
getIndexInfoEitherWay(tz, dateStr, baseStart) ==
  LET hours == LocalMidnightHours(tz, dateStr) - LocalMidnightHours(tz, baseStart)
      diffDays == (IF hours < 0 THEN -hours ELSE hours) \div 24
  IN  [diffDays |-> diffDays,
       weekIndex |-> diffDays \div 7,
       biWeekIndex |-> diffDays \div 14]

\* getIndexInfo(dateStr, baseStart)
getIndexInfo(tz, dateStr, baseStart) ==
  LET diffDays == (LocalMidnightHours(tz, dateStr) - LocalMidnightHours(tz, baseStart)) \div 24
  IN  [diffDays |-> diffDays,
       weekIndex |-> diffDays \div 7,
       biWeekIndex |-> diffDays \div 14]

(* ---------------------------- payroll engine ---------------------------- *)
\* every entry kept, null hours read as 0
WithHoursNullAsZero(list) ==
  [i \in 1..Len(list) |->
     IF IsNull(list[i].hours) THEN [list[i] EXCEPT !.hours = Some(0)] ELSE list[i]]

\* dayHours.filter(d => d.hours != null && !isNaN(d.hours))
RECURSIVE WithHours(_)
WithHours(list) ==
  IF list = <<>> THEN <<>>
  ELSE IF IsNull(Head(list).hours) THEN WithHours(Tail(list))
  ELSE <<Head(list)>> \o WithHours(Tail(list))

\* insertion of e into a list sorted by date, after every entry that does not
\* follow it: Array.prototype.sort is stable
RECURSIVE InsertByDate(_, _)
InsertByDate(sorted, e) ==
  IF sorted = <<>> THEN <<e>>
  ELSE IF DateLess(e.date, Head(sorted).date) THEN <<e>> \o sorted
  ELSE <<Head(sorted)>> \o InsertByDate(Tail(sorted), e)

\* the entries in the order they are stored
SortByDateAsStored(list) == list

\* [...entries].sort((a, b) => a.date.localeCompare(b.date))
RECURSIVE SortByDate(_)
SortByDate(list) ==
  IF list = <<>> THEN <<>>
  ELSE InsertByDate(SortByDate(SubSeq(list, 1, Len(list) - 1)), list[Len(list)])

\* map.get(key) || 0 on a Map held as a function
GetOrZero(map, key) == IF key \in DOMAIN map THEN map[key] ELSE 0

\* map.set(key, value)
MapSet(map, key, value) ==
  [k \in DOMAIN map \cup {key} |-> IF k = key THEN value ELSE map[k]]

\* the first loop of detailedHistory: total hours per bi-week
RECURSIVE BiWeeklyTotals(_, _, _, _)
BiWeeklyTotals(tz, sorted, startDate, totals) ==
  IF sorted = <<>> THEN totals
  ELSE LET r == Head(sorted)
           biWeekIndex == getIndexInfo(tz, r.date, startDate).biWeekIndex
       IN  BiWeeklyTotals(tz, Tail(sorted), startDate,
             MapSet(totals, biWeekIndex, GetOrZero(totals, biWeekIndex) + Val(r.hours)))

DetailedDay(date, hours, earnings, incomeTax, employeeInsurance, cpp, afterTax) ==
  [date |-> date, hours |-> hours, earnings |-> earnings, incomeTax |-> incomeTax,
   employeeInsurance |-> employeeInsurance, cpp |-> cpp, afterTax |-> afterTax]

\* the rows the loop body can push for <<earnings, taxableEarnings>> in money
\* units: the deductions, the after-tax amount and the rounded gross
PaidRows(date, h, earnings, taxableEarnings) ==
  UNION {
    { DetailedDay(date, h, gross, incomeTax, employeeInsurance, cpp, afterTax) :
        afterTax \in round2(earnings - MoneyScale * (incomeTax + employeeInsurance + cpp)),
        gross \in round2(earnings) } :
      incomeTax \in round2Rate(taxableEarnings, INCOME_TAX_RATE),
      employeeInsurance \in round2Rate(taxableEarnings, EMPLOYEE_INSURANCE_RATE),
      cpp \in round2Rate(taxableEarnings, CPP_RATE) }

\* DayTaxFree with a fault: the whole bi-week total is shared out, not the
\* hours above the threshold
DayTaxFreeOfTotal(h, biWeekHours) ==
  IF biWeekHours > BIWEEKLY_TAXFREE_THRESHOLD * HourScale /\ biWeekHours > 0
    THEN LET g == HourScale \div 100
             n == h * biWeekHours
             d == g * biWeekHours
         IN  { Min(g * k, h) : k \in MathRound(n \div d, n % d, d) }
    ELSE {0}

\* the tax-free hours of a day under the unlawful rule: the possible values
DayTaxFree(h, biWeekHours) ==
  IF biWeekHours > BIWEEKLY_TAXFREE_THRESHOLD * HourScale /\ biWeekHours > 0
    THEN LET extra == biWeekHours - BIWEEKLY_TAXFREE_THRESHOLD * HourScale
             g == HourScale \div 100
             n == h * extra
             d == g * biWeekHours
         IN  { Min(g * k, h) : k \in MathRound(n \div d, n % d, d) }
    ELSE {0}

\* UnlawfulRows with a fault: the tax-free hours are taxed as well
UnlawfulRowsAllTaxable(date, h, biWeekHours, hourlyRate) ==
  PaidRows(date, h, h * hourlyRate * BonusFactor, h * hourlyRate * BonusFactor)

\* the unlawful-rule branch of the loop body
UnlawfulRows(date, h, biWeekHours, hourlyRate) ==
  UNION { LET earnings == h * hourlyRate * BonusFactor
              taxableHours == Max(0, h - dayTaxFree)
              taxableEarnings == taxableHours * hourlyRate * BonusFactor
          IN  PaidRows(date, h, earnings, taxableEarnings) :
            dayTaxFree \in DayTaxFree(h, biWeekHours) }

\* RegularHours with a fault: the hours worked earlier in the week are ignored
RegularHoursPerDay(h, workedSoFar) ==
  Max(0, Min(h, WEEKLY_OVERTIME_THRESHOLD * HourScale))

\* regular hours of a day of h hours after workedSoFar hours in its week
RegularHours(h, workedSoFar) ==
  Max(0, Min(h, WEEKLY_OVERTIME_THRESHOLD * HourScale - workedSoFar))

\* StandardRows with a fault: only the regular earnings are taxed
StandardRowsRegularTaxed(date, h, workedSoFar, hourlyRate) ==
  LET regularHours == RegularHours(h, workedSoFar)
      overtimeHours == Max(0, h - regularHours)
      regularEarnings == regularHours * hourlyRate * BonusFactor
      overtimeEarnings == overtimeHours * hourlyRate * OvertimeFactor
  IN  PaidRows(date, h, regularEarnings + overtimeEarnings, regularEarnings)

\* the weekly-overtime branch of the loop body
StandardRows(date, h, workedSoFar, hourlyRate) ==
  LET regularHours == RegularHours(h, workedSoFar)
      overtimeHours == Max(0, h - regularHours)
      regularEarnings == regularHours * hourlyRate * BonusFactor
      overtimeEarnings == overtimeHours * hourlyRate * OvertimeFactor
      earnings == regularEarnings + overtimeEarnings
  IN  PaidRows(date, h, earnings, earnings)

\* the second loop of detailedHistory: for each sorted entry the set of rows
\* it can produce, with the weeklyWorked map carried along
RECURSIVE RowSets(_, _, _, _, _, _, _)
RowSets(tz, sorted, hourlyRate, startDate, useUnlawfulRule, biWeeklyTotals, weeklyWorked) ==
  IF sorted = <<>> THEN <<>>
  ELSE
    LET r == Head(sorted)
        h == Val(r.hours)
        info == getIndexInfo(tz, r.date, startDate)
        biWeekHours == GetOrZero(biWeeklyTotals, info.biWeekIndex)
        workedSoFar == GetOrZero(weeklyWorked, info.weekIndex)
    IN
      IF h <= 0
        THEN <<{DetailedDay(r.date, 0, 0, 0, 0, 0, 0)}>> \o
               RowSets(tz, Tail(sorted), hourlyRate, startDate, useUnlawfulRule,
                       biWeeklyTotals, weeklyWorked)
      ELSE IF useUnlawfulRule
        THEN <<UnlawfulRows(r.date, h, biWeekHours, hourlyRate)>> \o
               RowSets(tz, Tail(sorted), hourlyRate, startDate, useUnlawfulRule,
                       biWeeklyTotals, weeklyWorked)
      ELSE <<StandardRows(r.date, h, workedSoFar, hourlyRate)>> \o
             RowSets(tz, Tail(sorted), hourlyRate, startDate, useUnlawfulRule,
                     biWeeklyTotals, MapSet(weeklyWorked, info.weekIndex, workedSoFar + h))

\* the values dayTaxFree takes in the second loop, one set per sorted entry;
\* an entry without hours is skipped before dayTaxFree is set
TaxFreeShares(tz, list, startDate) ==
  LET sorted == SortByDate(WithHours(list))
      biWeeklyTotals == BiWeeklyTotals(tz, sorted, startDate, <<>>)
  IN  [i \in 1..Len(sorted) |->
         IF Val(sorted[i].hours) <= 0 THEN {0}
         ELSE DayTaxFree(Val(sorted[i].hours),
                GetOrZero(biWeeklyTotals,
                          getIndexInfo(tz, sorted[i].date, startDate).biWeekIndex))]

\* every list that takes its i-th element from the i-th set
RECURSIVE Lists(_)
Lists(sets) ==
  IF sets = <<>> THEN {<<>>}
  ELSE { <<x>> \o rest : x \in Head(sets), rest \in Lists(Tail(sets)) }

\* the detailedHistory memo: the lists of DetailedDay rows it can evaluate to
computeDetailedDays(tz, list, rate, anchor, unlawful) ==
  LET sorted == SortByDate(WithHours(list))
      biWeeklyTotals == BiWeeklyTotals(tz, sorted, anchor, <<>>)
  IN  Lists(RowSets(tz, sorted, rate, anchor, unlawful, biWeeklyTotals, <<>>))

(* --------------------------- pay-period summary ------------------------- *)
\* getSemiMonthlyInfo(dateStr); getMonth() counts months from 0
getSemiMonthlyInfo(dateStr) ==
  LET year == dateStr[1]
      month == dateStr[2] - 1
      day == dateStr[3]
      half == IF day <= 15 THEN 0 ELSE 1
      daysInMonth == DaysInMonth(year, month + 1)
      startDay == IF half = 0 THEN 1 ELSE 16
      endDay == IF half = 0 THEN 15 ELSE daysInMonth
  IN  [index |-> year * 24 + month * 2 + half,
       start |-> Some(Ymd(year, month + 1, startDay)),
       end |-> Some(Ymd(year, month + 1, endDay))]

\* getMonthlyInfo(dateStr)
getMonthlyInfo(dateStr) ==
  LET year == dateStr[1]
      month == dateStr[2] - 1
      daysInMonth == DaysInMonth(year, month + 1)
  IN  [index |-> year * 12 + month,
       start |-> Some(Ymd(year, month + 1, 1)),
       end |-> Some(Ymd(year, month + 1, daysInMonth))]

\* the periodInfo of a row under the pay cycle
PeriodInfo(tz, date, cycle, startDate) ==
  IF cycle = "monthly" THEN getMonthlyInfo(date)
  ELSE IF cycle = "semi-monthly" THEN getSemiMonthlyInfo(date)
  ELSE [index |-> getIndexInfo(tz, date, startDate).biWeekIndex, start |-> None, end |-> None]

\* position of the bucket with the key in the Map's insertion order, 0 if none
RECURSIVE BucketAt(_, _, _)
BucketAt(buckets, key, i) ==
  IF i > Len(buckets) THEN 0
  ELSE IF buckets[i].key = key THEN i
  ELSE BucketAt(buckets, key, i + 1)

\* the forEach of biWeeklySummary over the rows from the i-th on
RECURSIVE SummaryBuckets(_, _, _, _, _, _)
SummaryBuckets(tz, history, cycle, startDate, i, buckets) ==
  IF i > Len(history) THEN buckets
  ELSE
    LET d == history[i]
        periodInfo == PeriodInfo(tz, d.date, cycle, startDate)
        at == BucketAt(buckets, periodInfo.index, 1)
        cur == IF at = 0
                 THEN [key |-> periodInfo.index, hours |-> 0, earned |-> 0, days |-> <<>>,
                       start |-> periodInfo.start, end |-> periodInfo.end]
                 ELSE buckets[at]
        next == [cur EXCEPT !.start = periodInfo.start, !.end = periodInfo.end,
                            !.hours = @ + d.hours, !.earned = @ + d.earnings,
                            !.days = Append(@, [date |-> d.date, hours |-> d.hours,
                                                earnings |-> d.earnings])]
    IN  SummaryBuckets(tz, history, cycle, startDate, i + 1,
          IF at = 0 THEN Append(buckets, next) ELSE [buckets EXCEPT ![at] = next])

\* every pay cycle numbered by position
SummarizeByPosition(tz, history, cycle, startDate) ==
  LET buckets == SummaryBuckets(tz, history, cycle, startDate, 1, <<>>)
  IN  [i \in 1..Len(buckets) |->
         [index |-> i,
          hours |-> buckets[i].hours, earned |-> buckets[i].earned,
          days |-> buckets[i].days, start |-> buckets[i].start, end |-> buckets[i].end]]

\* the biWeeklySummary memo for one value of detailedHistory
Summarize(tz, history, cycle, startDate) ==
  LET buckets == SummaryBuckets(tz, history, cycle, startDate, 1, <<>>)
  IN  [i \in 1..Len(buckets) |->
         [index |-> IF cycle = "biweekly" THEN buckets[i].key + 1 ELSE i,
          hours |-> buckets[i].hours, earned |-> buckets[i].earned,
          days |-> buckets[i].days, start |-> buckets[i].start, end |-> buckets[i].end]]

(* --------------------------- pay-period rows ---------------------------- *)
\* detailedHistory.filter(d => periodDays.some(day => day.date === d.date))
RECURSIVE PeriodDetails(_, _)
PeriodDetails(history, periodDays) ==
  IF history = <<>> THEN <<>>
  ELSE IF \E k \in 1..Len(periodDays) : periodDays[k].date = Head(history).date
    THEN <<Head(history)>> \o PeriodDetails(Tail(history), periodDays)
  ELSE PeriodDetails(Tail(history), periodDays)

\* every hour of the day counted below the threshold
TaxedHoursAll(h, taxedHours) == h

\* Math.min(h, Math.max(0, BIWEEKLY_TAXFREE_THRESHOLD - taxedHours))
TaxedHours(h, taxedHours) ==
  Min(h, Max(0, BIWEEKLY_TAXFREE_THRESHOLD * HourScale - taxedHours))

\* the loop of a period row under the special regime, in money units
RECURSIVE UnlawfulSplit(_, _, _, _, _)
UnlawfulSplit(periodDetails, rate, taxedHours, regularEarnings, overtimeEarnings) ==
  IF periodDetails = <<>>
    THEN [regularEarnings |-> regularEarnings, overtimeEarnings |-> overtimeEarnings]
  ELSE LET h == Head(periodDetails).hours
           thisTaxed == TaxedHours(h, taxedHours)
           thisOver == h - thisTaxed
       IN  UnlawfulSplit(Tail(periodDetails), rate, taxedHours + thisTaxed,
                         regularEarnings + thisTaxed * rate * BonusFactor,
                         overtimeEarnings + thisOver * rate * BonusFactor)

\* the loop of a period row under the standard regime, in money units
RECURSIVE StandardSplit(_, _, _, _, _, _, _)
StandardSplit(tz, periodDetails, rate, startDate, weeklyWorked, regular, overtime) ==
  IF periodDetails = <<>>
    THEN [regularEarnings |-> regular, overtimeEarnings |-> overtime]
  ELSE LET d == Head(periodDetails)
           weekIndex == getIndexInfo(tz, d.date, startDate).weekIndex
           workedSoFar == GetOrZero(weeklyWorked, weekIndex)
           regularHours ==
             Max(0, Min(d.hours, WEEKLY_OVERTIME_THRESHOLD * HourScale - workedSoFar))
           overtimeHours == Max(0, d.hours - regularHours)
       IN  StandardSplit(tz, Tail(periodDetails), rate, startDate,
                         MapSet(weeklyWorked, weekIndex, workedSoFar + d.hours),
                         regular + regularHours * rate * BonusFactor,
                         overtime + overtimeHours * rate * OvertimeFactor)

\* periodDetails.reduce((sum, d) => sum + d[field], 0)
RECURSIVE SumField(_, _)
SumField(periodDetails, field) ==
  IF periodDetails = <<>> THEN 0
  ELSE Head(periodDetails)[field] + SumField(Tail(periodDetails), field)

\* The values a row of the summary table can show for the period b.  The
\* earnings are in money units, the deductions and the net in cents; the
\* take-home pay is <<cents, money units>>, the sum of the two.
SummaryRows(tz, b, history, rate, unlawful, startDate) ==
  LET periodDetails == PeriodDetails(history, b.days)
      split == IF unlawful
                 THEN UnlawfulSplit(periodDetails, rate, 0, 0, 0)
                 ELSE StandardSplit(tz, periodDetails, rate, startDate, <<>>, 0, 0)
      Row(tax, ei, cpp, net, cash) ==
        [index |-> b.index, hours |-> SumField(periodDetails, "hours"),
         regularEarnings |-> split.regularEarnings,
         overtimeEarnings |-> split.overtimeEarnings,
         displayIncomeTax |-> tax, displayEmployeeInsurance |-> ei, displayCpp |-> cpp,
         displayNet |-> net, displayTakeHome |-> <<net, cash>>]
  IN  IF unlawful
        THEN UNION {
               { Row(incomeTaxRegular, employeeInsuranceRegular, cppRegular,
                     afterTaxRegular, split.overtimeEarnings) :
                   afterTaxRegular \in
                     round2(split.regularEarnings
                              - MoneyScale * (incomeTaxRegular + employeeInsuranceRegular
                                                + cppRegular)) } :
                 incomeTaxRegular \in round2Rate(split.regularEarnings, INCOME_TAX_RATE),
                 employeeInsuranceRegular \in
                   round2Rate(split.regularEarnings, EMPLOYEE_INSURANCE_RATE),
                 cppRegular \in round2Rate(split.regularEarnings, CPP_RATE) }
        ELSE { Row(SumField(periodDetails, "incomeTax"),
                   SumField(periodDetails, "employeeInsurance"),
                   SumField(periodDetails, "cpp"),
                   SumField(periodDetails, "afterTax"), 0) }

(* ------------------------------- the jobs ------------------------------- *)
\* a job name is the sequence of its characters
Str3495 == <<"3", "4", "9", "5">>
DEFAULT_JOB_ID == "default"
DEFAULT_JOB_NAME == <<"M", "a", "i", "n", " ", "J", "o", "b">>

JobMeta(id, name) == [id |-> id, name |-> name]

\* String.prototype.trim on a sequence of characters
RECURSIVE TrimStart(_)
TrimStart(name) ==
  IF name # <<>> /\ Head(name) = " " THEN TrimStart(Tail(name)) ELSE name

RECURSIVE TrimEnd(_)
TrimEnd(name) ==
  IF name # <<>> /\ name[Len(name)] = " "
    THEN TrimEnd(SubSeq(name, 1, Len(name) - 1))
    ELSE name

trim(name) == TrimEnd(TrimStart(name))

\* jobs.find(job => job.id === activeJobId) || jobs[0]
RECURSIVE FindJob(_, _)
FindJob(list, id) ==
  IF list = <<>> THEN None
  ELSE IF Head(list).id = id THEN Some(Head(list))
  ELSE FindJob(Tail(list), id)

activeJobOf(jobList, activeId) ==
  IF ~IsNull(FindJob(jobList, activeId)) THEN FindJob(jobList, activeId)
  ELSE IF jobList # <<>> THEN Some(jobList[1])
  ELSE None

\* the name compared as it is stored
useUnlawfulRuleUntrimmed(jobList, activeId) ==
  LET activeJob == activeJobOf(jobList, activeId)
  IN  (IF IsNull(activeJob) THEN <<>> ELSE Val(activeJob).name) = Str3495

\* (activeJob?.name ?? "").trim() === "3495"
useUnlawfulRuleOf(jobList, activeId) ==
  LET activeJob == activeJobOf(jobList, activeId)
  IN  trim(IF IsNull(activeJob) THEN <<>> ELSE Val(activeJob).name) = Str3495

(* ------------------------------- the items ----------------------------- *)
\* an Item; the price is in cents, the name is not modelled
Item(id, price, taxable, enabled) ==
  [id |-> id, price |-> price, taxable |-> taxable, enabled |-> enabled]

\* defaultItems: Rent, Food / Groceries, Transportation
defaultItems == <<Item(1, 0, FALSE, TRUE), Item(2, 0, TRUE, TRUE), Item(3, 0, TRUE, TRUE)>>

(* ------------------------------- the state ------------------------------ *)
VARIABLES
  tz,                \* the browser's time zone
  jobs,              \* JobMeta[]
  activeJobId,
  items,             \* Item[]
  hourlyRate,        \* cents per hour
  payCycle,
  dayHours,          \* DayHours[]
  startDate,
  currentDate,       \* <<year, month>> of the displayed month
  notification,
  showResetConfirm,
  store,             \* localStorage: job id -> the texts stored under the job's keys
  roster,            \* RosterData
  uploads,           \* the roster files being read and compressed
  quota              \* localStorage is full: setItem throws

vars == <<tz, jobs, activeJobId, items, hourlyRate, payCycle, dayHours, startDate,
          currentDate, notification, showResetConfirm, store, roster, uploads, quota>>

useUnlawfulRule == useUnlawfulRuleOf(jobs, activeJobId)

\* The detailedHistory memo.  It is re-evaluated whenever dayHours, hourlyRate,
\* startDate or useUnlawfulRule changed, so in every render it is a value of
\* the computation on the current state: the set of lists it can hold.
detailedHistory == computeDetailedDays(tz, dayHours, hourlyRate, startDate, useUnlawfulRule)

\* the biWeeklySummary memo: the lists of periods it can hold
biWeeklySummary == {Summarize(tz, h, payCycle, startDate) : h \in detailedHistory}

\* the per-job values kept under jobStorageKey(jobId, ...)
Bundle(list, rate, cycle, days, anchor, shown, pics) ==
  [items |-> list, hourlyRate |-> rate, payCycle |-> cycle, dayHours |-> days,
   startDate |-> anchor, currentDate |-> shown, roster |-> pics]

\* { weekly: {}, monthly: {} }; a Record is held as a function of its keys
EmptyRoster == [weekly |-> <<>>, monthly |-> <<>>]

\* What localStorage holds under a key is a text: none (<<>>), the text the
\* program wrote for a value (<<value>>), the text "null", or a text that is
\* neither JSON nor a number, a date or a pay cycle.
Absent == <<>>
JsonNull == <<0, 0>>
Unparsable == <<0, 0, 0>>

\* JSON.stringify / String of the seven values of a bundle
Stringify(b) == [key \in DOMAIN b |-> <<b[key]>>]

\* safeSetItem for the seven keys of a job: nothing is written when setItem
\* throws
safeSetItem(storage, jobId, b) ==
  IF quota THEN storage ELSE [storage EXCEPT ![jobId] = Stringify(b)]

\* getTorontoToday(): the day the program runs
Today == Ymd(2025, 3, 7)

\* createDefaultJobData()
createDefaultJobData ==
  Bundle(defaultItems, 1760, "biweekly", <<>>, Today, <<Today[1], Today[2]>>, EmptyRoster)

\* the seven keys of a job with nothing stored under them
AbsentBundle == [key \in DOMAIN createDefaultJobData |-> Absent]

\* What a render leaves behind once state has been set to the given values:
\* the persist effects write the bundle under the active job.
RenderState(jobList, activeId, list, rate, cycle, days, anchor, shown, pics, storage) ==
  /\ jobs' = jobList
  /\ activeJobId' = activeId
  /\ items' = list
  /\ hourlyRate' = rate
  /\ payCycle' = cycle
  /\ dayHours' = days
  /\ startDate' = anchor
  /\ currentDate' = shown
  /\ roster' = pics
  /\ store' = safeSetItem(storage, activeId,
                          Bundle(list, rate, cycle, days, anchor, shown, pics))
  /\ tz' = tz
  /\ quota' = quota

\* state that is set only when the write that follows succeeds
RenderWhenStored(jobList, activeId, list, rate, cycle, days, anchor, shown, pics, storage) ==
  IF quota
    THEN UNCHANGED <<tz, jobs, activeJobId, items, hourlyRate, payCycle, dayHours, startDate,
                     currentDate, store, roster, uploads, quota>>
  ELSE /\ RenderState(jobList, activeId, list, rate, cycle, days, anchor, shown, pics, storage)
       /\ uploads' = uploads

\* a render that no file read takes part in
Render(jobList, activeId, list, rate, cycle, days, anchor, shown, pics, storage) ==
  /\ RenderState(jobList, activeId, list, rate, cycle, days, anchor, shown, pics, storage)
  /\ uploads' = uploads

\* a render after setDayHours alone
SetDayHours(days) ==
  Render(jobs, activeJobId, items, hourlyRate, payCycle, days, startDate, currentDate, roster, store)

\* notify(msg); the message is cleared by a timer 3 s later
notify(msg) == notification' = msg

NotificationTimeout ==
  /\ notification # ""
  /\ notification' = ""
  /\ UNCHANGED <<tz, jobs, activeJobId, items, hourlyRate, payCycle, dayHours, startDate,
                 currentDate, showResetConfirm, store, roster, uploads, quota>>

(* --------------------------- day-entry handlers ------------------------- *)
\* the text of an <input type="number">: empty, not a number, or a number
RawEmpty == [kind |-> "empty"]
RawText == [kind |-> "text"]
RawNum(n) == [kind |-> "num", n |-> n]

\* a value out of 0..24 stored as the nearest of 0 and 24
handleHourInputClamped(date, raw) ==
  IF raw.kind = "empty"
    THEN /\ SetDayHours(OtherThan(dayHours, date))
         /\ UNCHANGED <<notification, showResetConfirm>>
  ELSE IF raw.kind = "text"
    THEN /\ notify("Hours must be a number between 0 and 24")
         /\ UNCHANGED <<tz, jobs, activeJobId, items, hourlyRate, payCycle, dayHours, startDate,
                        currentDate, showResetConfirm, store, roster, uploads, quota>>
  ELSE /\ SetDayHours(HourInputResult(dayHours, date, Max(0, Min(24 * HourScale, raw.n))))
       /\ notification' = IF raw.n < 0 \/ raw.n > 24 * HourScale
                             THEN "Hours must be a number between 0 and 24"
                             ELSE notification
       /\ UNCHANGED showResetConfirm

\* handleHourInput(date, raw); a numeric raw is in hour units
handleHourInput(date, raw) ==
  IF raw.kind = "empty"
    THEN /\ SetDayHours(OtherThan(dayHours, date))
         /\ UNCHANGED <<notification, showResetConfirm>>
  ELSE IF raw.kind = "text" \/ raw.n < 0 \/ raw.n > 24 * HourScale
    THEN /\ notify("Hours must be a number between 0 and 24")
         /\ UNCHANGED <<tz, jobs, activeJobId, items, hourlyRate, payCycle, dayHours, startDate,
                        currentDate, showResetConfirm, store, roster, uploads, quota>>
  ELSE /\ SetDayHours(HourInputResult(dayHours, date, raw.n))
       /\ UNCHANGED <<notification, showResetConfirm>>

\* handleTimeInput(date, field, value)
handleTimeInput(date, field, value) ==
  /\ SetDayHours(TimeInputResult(dayHours, date, field, value))
  /\ UNCHANGED <<notification, showResetConfirm>>

\* handleLunchMinutesInput(date, raw); a numeric raw is in half minutes
handleLunchMinutesInput(date, raw) ==
  IF raw.kind = "empty"
    THEN /\ SetDayHours(LunchClearResult(dayHours, date))
         /\ UNCHANGED <<notification, showResetConfirm>>
  ELSE IF raw.kind = "text"
    THEN UNCHANGED vars
  ELSE /\ SetDayHours(LunchInputResult(dayHours, date, raw.n))
       /\ UNCHANGED <<notification, showResetConfirm>>

\* h.date.startsWith(prefix) for the prefix "YYYY-MM-" of the displayed month
InMonth(date, shown) == date[1] = shown[1] /\ date[2] = shown[2]

\* every entry removed, whatever its month
OutsideMonthNone(prev, shown) == <<>>

\* prev.filter(h => !h.date.startsWith(prefix))
RECURSIVE OutsideMonth(_, _)
OutsideMonth(prev, shown) ==
  IF prev = <<>> THEN <<>>
  ELSE IF InMonth(Head(prev).date, shown) THEN OutsideMonth(Tail(prev), shown)
  ELSE <<Head(prev)>> \o OutsideMonth(Tail(prev), shown)

\* the entries autoFillWeekdays builds for days d..days of the shown month
RECURSIVE WeekdayEntries(_, _, _, _)
WeekdayEntries(shown, d, days, h) ==
  IF d > days THEN <<>>
  ELSE LET wk == getDay(shown[1], shown[2], d)
           rest == WeekdayEntries(shown, d + 1, days, h)
       IN  IF wk # 0 /\ wk # 6
             THEN <<DayEntry(Ymd(shown[1], shown[2], d), None, None, Some(h),
                             None, None, None)>> \o rest
             ELSE rest

\* autoFillWeekdays(); val is what prompt() returned: None when cancelled,
\* else Some(raw).  Number(val || "8"): an empty answer reads as 8.
autoFillWeekdays(val) ==
  IF IsNull(val)
    THEN UNCHANGED vars
  ELSE LET raw == IF Val(val).kind = "empty" THEN RawNum(8 * HourScale) ELSE Val(val)
       IN  IF raw.kind = "text" \/ raw.n < 0 \/ raw.n > 24 * HourScale
             THEN /\ notify("Invalid hour")
                  /\ UNCHANGED <<tz, jobs, activeJobId, items, hourlyRate, payCycle, dayHours,
                                 startDate, currentDate, showResetConfirm, store, roster, uploads, quota>>
             ELSE /\ SetDayHours(OutsideMonth(dayHours, currentDate) \o
                       WeekdayEntries(currentDate, 1,
                         DaysInMonth(currentDate[1], currentDate[2]), raw.n))
                  /\ notify("Weekdays auto-filled")
                  /\ UNCHANGED showResetConfirm

\* resetMonthHours()
resetMonthHours ==
  /\ showResetConfirm' = TRUE
  /\ UNCHANGED <<tz, jobs, activeJobId, items, hourlyRate, payCycle, dayHours, startDate,
                 currentDate, notification, store, roster, uploads, quota>>

\* the Cancel button and the backdrop of the reset confirmation
cancelResetMonth ==
  /\ showResetConfirm
  /\ showResetConfirm' = FALSE
  /\ UNCHANGED <<tz, jobs, activeJobId, items, hourlyRate, payCycle, dayHours, startDate,
                 currentDate, notification, store, roster, uploads, quota>>

\* confirmResetMonth(), the OK button of the reset confirmation
confirmResetMonth ==
  /\ showResetConfirm
  /\ SetDayHours(OutsideMonth(dayHours, currentDate))
  /\ showResetConfirm' = FALSE
  /\ notify("This month's hours reset")

(* ------------------------------ the controls ---------------------------- *)
\* the hourly-rate input of the controls card
setHourlyRate(rate) ==
  /\ Render(jobs, activeJobId, items, rate, payCycle, dayHours, startDate, currentDate, roster, store)
  /\ UNCHANGED <<notification, showResetConfirm>>

\* the start-date input of the controls card
setStartDate(date) ==
  /\ Render(jobs, activeJobId, items, hourlyRate, payCycle, dayHours, date, currentDate, roster, store)
  /\ UNCHANGED <<notification, showResetConfirm>>

\* the pay-cycle select of the controls card
setPayCycle(cycle) ==
  /\ Render(jobs, activeJobId, items, hourlyRate, cycle, dayHours, startDate, currentDate, roster, store)
  /\ UNCHANGED <<notification, showResetConfirm>>

(* ----------------------- the day-entry specification -------------------- *)
\* the date the user edits: a weekday of the displayed month
Dates == {Ymd(2025, 3, 7)}

\* what is typed into an hours field: nothing, text, -1, 0, 8 and 25 hours
HourRaws ==
  {RawEmpty, RawText, RawNum(-HourScale), RawNum(0), RawNum(8 * HourScale),
   RawNum(25 * HourScale)}

\* what a time picker hands over: null when cleared, else "09:00" or "17:20"
TimeValues == {None, Some(<<9, 0>>), Some(<<17, 20>>)}

\* what is typed into a lunch field: nothing, text, 0, 20, 29.5 and 200 minutes
LunchRaws == {RawEmpty, RawText, RawNum(0), RawNum(40), RawNum(59), RawNum(400)}

\* what is answered to the auto-fill prompt: cancel, nothing (8 hours), 25 hours
AutoFillAnswers == {None, Some(RawEmpty), Some(RawNum(25 * HourScale))}

\* an entry stored by a version of the program that had the lunch checkbox
LegacyEntry ==
  DayEntry(Ymd(2025, 3, 7), None, None, Some(8 * HourScale), Some(FALSE), None, None)

\* an entry of another month than the displayed one, as handleHourInput stores it
OtherMonthEntry ==
  DayEntry(Ymd(2025, 4, 1), None, None, Some(8 * HourScale), None, Some(0), Some(8 * HourScale))

PaymentCycles == {"biweekly", "semi-monthly", "monthly"}

\* the lists of days found in storage when the program starts
StoredDayLists == {<<>>, <<LegacyEntry>>, <<OtherMonthEntry>>}

JobIds == {DEFAULT_JOB_ID, "job_1", "job_2"}

\* the state after the first render of a stored list of days for the default job
InitWith(zone, jobList, activeId, b) ==
  /\ tz = zone
  /\ jobs = jobList
  /\ activeJobId = activeId
  /\ items = b.items
  /\ hourlyRate = b.hourlyRate
  /\ payCycle = b.payCycle
  /\ dayHours = b.dayHours
  /\ startDate = b.startDate
  /\ currentDate = b.currentDate
  /\ roster = b.roster
  /\ uploads = {}
  /\ quota = FALSE
  /\ notification = ""
  /\ showResetConfirm = FALSE
  /\ store = [id \in JobIds |-> IF id = activeId THEN Stringify(b) ELSE AbsentBundle]

Init ==
  \E days \in StoredDayLists :
    InitWith("America/Toronto", <<JobMeta(DEFAULT_JOB_ID, DEFAULT_JOB_NAME)>>, DEFAULT_JOB_ID,
             [createDefaultJobData EXCEPT !.dayHours = days])

HourInput == \E date \in Dates, raw \in HourRaws : handleHourInput(date, raw)
TimeInput ==
  \E date \in Dates, field \in {"start", "end"}, value \in TimeValues :
    handleTimeInput(date, field, value)
LunchInput == \E date \in Dates, raw \in LunchRaws : handleLunchMinutesInput(date, raw)
AutoFill == \E val \in AutoFillAnswers : autoFillWeekdays(val)
SetPayCycle == \E cycle \in PaymentCycles : setPayCycle(cycle)

Next ==
  \/ HourInput
  \/ TimeInput
  \/ LunchInput
  \/ AutoFill
  \/ SetPayCycle
  \/ resetMonthHours
  \/ cancelResetMonth
  \/ confirmResetMonth
  \/ NotificationTimeout

Spec == Init /\ [][Next]_vars

(* ------------------------ the payroll specification --------------------- *)
\* the number of consecutive dates, from 2025-03-06 on, that can hold hours;
\* in "America/Toronto" the clocks move forward on 2025-03-09
MaxPayDays == 5
PayDate(i) == Ymd(2025, 3, 5 + i)

\* hours of a stored day: 0, 10, 20.25 and 23.75 hours
PayHours == {0, 10 * HourScale, (81 * HourScale) \div 4, (95 * HourScale) \div 4}

\* hourly rates: 17.15 and 20.00
PayRates == {1715, 2000}

\* pay-period anchors: before, on and after the first stored day
Anchors == {Ymd(2025, 3, 3), Ymd(2025, 3, 6), Ymd(2025, 3, 8)}

TimeZones == {"UTC", "America/Toronto"}

\* the entry handleHourInput stores for h hours on a date without an entry
PayEntry(date, h) == DayEntry(date, None, None, Some(h), None, Some(0), Some(h))

\* the program starts with nothing stored but a rate and an anchor
InitPayroll ==
  \E zone \in TimeZones, name \in {DEFAULT_JOB_NAME, Str3495}, rate \in PayRates,
     anchor \in Anchors :
    InitWith(zone, <<JobMeta(DEFAULT_JOB_ID, name)>>, DEFAULT_JOB_ID,
             [createDefaultJobData EXCEPT !.hourlyRate = rate, !.startDate = anchor])

\* hours are typed into the dates from the last one back to the first
EnterHours ==
  /\ Len(dayHours) < MaxPayDays
  /\ \E h \in PayHours : handleHourInput(PayDate(MaxPayDays - Len(dayHours)), RawNum(h))
SetHourlyRate == \E rate \in PayRates : setHourlyRate(rate)
SetStartDate == \E date \in Anchors : setStartDate(date)

NextPayroll ==
  \/ EnterHours
  \/ SetHourlyRate
  \/ SetStartDate

SpecPayroll == InitPayroll /\ [][NextPayroll]_vars

(* ---------------------------- budget progress --------------------------- *)
\* items.filter(i => i.enabled).reduce((s, i) => s + (i.price || 0), 0), in cents
RECURSIVE totalItemPriceOf(_)
totalItemPriceOf(list) ==
  IF list = <<>> THEN 0
  ELSE (IF Head(list).enabled THEN Head(list).price ELSE 0) + totalItemPriceOf(Tail(list))

\* the tax of every enabled item, taxable or not
RECURSIVE totalItemTaxOfEnabled(_)
totalItemTaxOfEnabled(list) ==
  IF list = <<>> THEN 0
  ELSE (IF Head(list).enabled THEN Head(list).price * INCOME_TAX_RATE ELSE 0)
         + totalItemTaxOfEnabled(Tail(list))

\* items.filter(i => i.enabled && i.taxable)
\*      .reduce((s, i) => s + (i.price || 0) * INCOME_TAX_RATE, 0), in 1/RateScale cent
RECURSIVE totalItemTaxOf(_)
totalItemTaxOf(list) ==
  IF list = <<>> THEN 0
  ELSE (IF Head(list).enabled /\ Head(list).taxable
          THEN Head(list).price * INCOME_TAX_RATE ELSE 0)
         + totalItemTaxOf(Tail(list))

\* round2(totalItemPrice + totalItemTax): the possible results in whole cents
totalAfterTaxItemPriceOf(list) ==
  LET n == totalItemPriceOf(list) * RateScale + totalItemTaxOf(list)
  IN  MathRound(n \div RateScale, n % RateScale, RateScale)

\* round2(detailedHistory.reduce((s, d) => s + d.afterTax, 0)); the sum is a
\* whole number of cents
totalEarnedAfterTaxOf(history) == MathRound(SumField(history, "afterTax"), 0, 1)

\* totalAfterTaxItemPrice > 0
\*   ? Math.min(100, round2((totalEarnedAfterTax / totalAfterTaxItemPrice) * 100)) : 0
\* in hundredths of a percent; the quotient is taken in two parts so that no
\* intermediate value leaves the 32-bit range
progressPctOf(earned, cost) ==
  IF cost > 0
    THEN LET rest == (earned % cost) * 100 * 100
         IN  {Min(100 * 100, p) :
                p \in MathRound((earned \div cost) * 100 * 100 + rest \div cost,
                                rest % cost, cost)}
  ELSE {0}

totalEarnedAfterTax == UNION {totalEarnedAfterTaxOf(h) : h \in detailedHistory}
totalItemPrice == totalItemPriceOf(items)
totalItemTax == totalItemTaxOf(items)
totalAfterTaxItemPrice == totalAfterTaxItemPriceOf(items)

\* the progressPct memo: the values it can hold
progressPct ==
  UNION {progressPctOf(earned, cost) :
           earned \in totalEarnedAfterTax, cost \in totalAfterTaxItemPrice}

\* a render after setItems alone
SetItems(list) ==
  /\ Render(jobs, activeJobId, list, hourlyRate, payCycle, dayHours, startDate, currentDate,
            roster, store)
  /\ UNCHANGED <<notification, showResetConfirm>>

\* prev.map(p => p.id === it.id ? { ...p, [field]: value } : p)
MapItem(list, id, field, value) ==
  [i \in 1..Len(list) |->
     IF list[i].id = id THEN [list[i] EXCEPT ![field] = value] ELSE list[i]]

\* the checkbox, the price field and the taxable checkbox of an item
setItemEnabled(id, checked) == SetItems(MapItem(items, id, "enabled", checked))
setItemPrice(id, price) == SetItems(MapItem(items, id, "price", price))
setItemTaxable(id, checked) == SetItems(MapItem(items, id, "taxable", checked))

\* addItem(); now is Date.now()
addItem(now) == SetItems(Append(items, Item(now, 0, TRUE, TRUE)))

\* prev.filter(i => i.id !== id)
RECURSIVE WithoutItem(_, _)
WithoutItem(list, id) ==
  IF list = <<>> THEN <<>>
  ELSE IF Head(list).id = id THEN WithoutItem(Tail(list), id)
  ELSE <<Head(list)>> \o WithoutItem(Tail(list), id)

\* removeItem(id)
removeItem(id) == SetItems(WithoutItem(items, id))

(* ------------------------ the budget specification ----------------------- *)
\* the number of items of the list
MaxItems == 3

\* the prices typed into a price field, in cents
ItemPrices == {-100, 0, 100}

\* the clock at the press of "add item"
ItemClock == {4}

\* the stored days: none, one hour, one hour on each of two days
BudgetDayLists ==
  { <<>>,
    <<PayEntry(Ymd(2025, 3, 6), HourScale)>>,
    <<PayEntry(Ymd(2025, 3, 6), HourScale), PayEntry(Ymd(2025, 3, 7), HourScale)>> }

SetItemEnabled ==
  \E i \in 1..Len(items) : \E checked \in BOOLEAN : setItemEnabled(items[i].id, checked)
SetItemPrice ==
  \E i \in 1..Len(items) : \E price \in ItemPrices : setItemPrice(items[i].id, price)
SetItemTaxable ==
  \E i \in 1..Len(items) : \E checked \in BOOLEAN : setItemTaxable(items[i].id, checked)
AddItem ==
  \E now \in ItemClock :
    /\ Len(items) < MaxItems
    /\ \A i \in 1..Len(items) : items[i].id < now
    /\ addItem(now)
RemoveItem == \E i \in 1..Len(items) : removeItem(items[i].id)

\* one dollar an hour, the stored days of a former session
InitBudget ==
  \E days \in BudgetDayLists :
    InitWith("America/Toronto", <<JobMeta(DEFAULT_JOB_ID, DEFAULT_JOB_NAME)>>, DEFAULT_JOB_ID,
             [createDefaultJobData EXCEPT !.hourlyRate = 100, !.dayHours = days])

NextBudget ==
  \/ SetItemEnabled
  \/ SetItemPrice
  \/ SetItemTaxable
  \/ AddItem
  \/ RemoveItem

SpecBudget == InitBudget /\ [][NextBudget]_vars

(* ------------------------------ job handlers ----------------------------- *)
\* persistJobData(jobId) on a storage
persistJobData(storage, jobId) ==
  safeSetItem(storage, jobId,
              Bundle(items, hourlyRate, payCycle, dayHours, startDate, currentDate, roster))

\* safeParse(raw, fallback): the fallback for no text, for a text that is no
\* JSON and for the text "null"
safeParse(raw, fallback) == IF Len(raw) = 1 THEN raw[1] ELSE fallback

\* loadJobData(jobId).  The legacy keys of the default job are held under its
\* id.  A stored start date is taken as it is unless it is missing or empty.
loadJobData(storage, jobId) ==
  LET fallback == createDefaultJobData
      raw == storage[jobId]
  IN  Bundle(safeParse(raw.items, fallback.items),
             IF Len(raw.hourlyRate) = 1 THEN raw.hourlyRate[1] ELSE fallback.hourlyRate,
             IF Len(raw.payCycle) = 1 THEN raw.payCycle[1] ELSE fallback.payCycle,
             safeParse(raw.dayHours, fallback.dayHours),
             IF Len(raw.startDate) = 0 THEN fallback.startDate
               ELSE IF Len(raw.startDate) # 1 THEN raw.startDate
               ELSE IF Len(raw.startDate[1]) = 0 THEN fallback.startDate
               ELSE raw.startDate[1],
             IF Len(raw.currentDate) = 1 THEN raw.currentDate[1] ELSE fallback.currentDate,
             safeParse(raw.roster, fallback.roster))

\* clearJobStorage(jobId) on a storage
clearJobStorage(storage, jobId) == [storage EXCEPT ![jobId] = AbsentBundle]

\* a render after the per-job values were set from a bundle
RenderBundle(jobList, activeId, data, storage) ==
  Render(jobList, activeId, data.items, data.hourlyRate, data.payCycle, data.dayHours,
         data.startDate, data.currentDate, data.roster, storage)

\* switchJob(jobId)
switchJob(jobId) ==
  IF jobId = activeJobId THEN UNCHANGED vars
  ELSE LET storage == persistJobData(store, activeJobId)
       IN  /\ RenderBundle(jobs, jobId, loadJobData(storage, jobId), storage)
           /\ UNCHANGED <<notification, showResetConfirm>>

\* `Job ${jobs.length + 1}`
Digits == <<"1", "2", "3", "4", "5", "6", "7", "8", "9">>
DefaultJobName(n) == <<"J", "o", "b", " ", Digits[n]>>

\* addJob(); name is what prompt() returned, None when cancelled; jobId is the
\* id made of the clock and a random number
addJob(name, jobId) ==
  IF IsNull(name) THEN UNCHANGED vars
  ELSE LET defaultName == DefaultJobName(Len(jobs) + 1)
           trimmed == trim(Val(name))
           jobName == IF trimmed = <<>> THEN defaultName ELSE trimmed
           nextJobs == Append(jobs, JobMeta(jobId, jobName))
           storage == persistJobData(store, activeJobId)
       IN  /\ RenderBundle(nextJobs, jobId, createDefaultJobData, storage)
           /\ UNCHANGED <<notification, showResetConfirm>>

\* no job leaves the list
WithoutJobKeepAll(list, jobId) == list

\* jobs.filter(j => j.id !== jobId)
RECURSIVE WithoutJob(_, _)
WithoutJob(list, jobId) ==
  IF list = <<>> THEN <<>>
  ELSE IF Head(list).id = jobId THEN WithoutJob(Tail(list), jobId)
  ELSE <<Head(list)>> \o WithoutJob(Tail(list), jobId)

\* removeJob(jobId); confirmed is the answer to window.confirm
removeJob(jobId, confirmed) ==
  IF Len(jobs) <= 1
    THEN /\ notify("At least one job must remain")
         /\ UNCHANGED <<tz, jobs, activeJobId, items, hourlyRate, payCycle, dayHours, startDate,
                        currentDate, showResetConfirm, store, roster, uploads, quota>>
  ELSE IF ~confirmed THEN UNCHANGED vars
  ELSE LET storage == clearJobStorage(store, jobId)
           nextJobs == WithoutJob(jobs, jobId)
       IN  /\ IF jobId = activeJobId
                THEN RenderBundle(nextJobs, nextJobs[1].id,
                                  loadJobData(storage, nextJobs[1].id), storage)
                ELSE /\ jobs' = nextJobs
                     /\ store' = storage
                     /\ UNCHANGED <<tz, activeJobId, items, hourlyRate, payCycle, dayHours,
                                    startDate, currentDate, roster, uploads, quota>>
           /\ notify("Removed job")
           /\ UNCHANGED showResetConfirm

\* id.trim() is empty
IsBlankId(id) == id \in {"", " "}

\* normalizeJobList(raw): raw is None when not an array, else Some(list); an
\* element is None (null) or Some([id, name]), a field None when not a string
RECURSIVE NormalizeFromKeepsRepeats(_, _, _)
NormalizeFromKeepsRepeats(list, seen, normalized) ==
  IF list = <<>> THEN normalized
  ELSE LET job == Head(list)
       IN  IF IsNull(job) \/ IsNull(Val(job).id) \/ IsNull(Val(job).name)
             THEN NormalizeFromKeepsRepeats(Tail(list), seen, normalized)
           ELSE IF IsBlankId(Val(Val(job).id))
             THEN NormalizeFromKeepsRepeats(Tail(list), seen, normalized)
           ELSE NormalizeFromKeepsRepeats(Tail(list), seen,
                  Append(normalized, JobMeta(Val(Val(job).id), Val(Val(job).name))))

RECURSIVE NormalizeFrom(_, _, _)
NormalizeFrom(list, seen, normalized) ==
  IF list = <<>> THEN normalized
  ELSE LET job == Head(list)
       IN  IF IsNull(job) \/ IsNull(Val(job).id) \/ IsNull(Val(job).name)
             THEN NormalizeFrom(Tail(list), seen, normalized)
           ELSE IF IsBlankId(Val(Val(job).id)) \/ Val(Val(job).id) \in seen
             THEN NormalizeFrom(Tail(list), seen, normalized)
           ELSE NormalizeFrom(Tail(list), seen \cup {Val(Val(job).id)},
                  Append(normalized, JobMeta(Val(Val(job).id), Val(Val(job).name))))

normalizeJobList(raw) ==
  IF IsNull(raw) THEN <<>> ELSE NormalizeFrom(Val(raw), {}, <<>>)

\* normalizeJobData(raw): raw is None (undefined) or Some(exported bundle); a
\* field of the bundle is None when missing or of the wrong type
normalizeJobData(raw) ==
  LET fallback == createDefaultJobData
  IN  IF IsNull(raw) THEN fallback
      ELSE Bundle(
             IF ~IsNull(Val(raw).items) THEN Val(Val(raw).items) ELSE fallback.items,
             IF ~IsNull(Val(raw).hourlyRate) THEN Val(Val(raw).hourlyRate)
               ELSE fallback.hourlyRate,
             IF Val(raw).payCycle \in {Some("biweekly"), Some("semi-monthly"), Some("monthly")}
               THEN Val(Val(raw).payCycle) ELSE fallback.payCycle,
             IF ~IsNull(Val(raw).dayHours) THEN Val(Val(raw).dayHours) ELSE fallback.dayHours,
             IF ~IsNull(Val(raw).startDate) THEN Val(Val(raw).startDate)
               ELSE fallback.startDate,
             IF ~IsNull(Val(raw).currentDate) THEN Val(Val(raw).currentDate)
               ELSE fallback.currentDate,
             IF ~IsNull(Val(raw).roster) THEN Val(Val(raw).roster) ELSE fallback.roster)

JobIdsOf(list) == {list[i].id : i \in 1..Len(list)}

\* jobDataMap[id]
JobDataOf(jobData, id) == IF id \in DOMAIN jobData THEN jobData[id] ELSE None

\* importAllJobs(payload)
importAllJobs(payload) ==
  LET nextJobs == normalizeJobList(payload.jobs)
  IN  IF Len(nextJobs) = 0
        THEN /\ notify("Invalid import file")
             /\ UNCHANGED <<tz, jobs, activeJobId, items, hourlyRate, payCycle, dayHours, startDate,
                            currentDate, showResetConfirm, store, roster, uploads, quota>>
      ELSE
        LET cleared == [id \in DOMAIN store |->
                          IF id \in JobIdsOf(jobs) THEN AbsentBundle ELSE store[id]]
            written == [id \in DOMAIN store |->
                          IF id \in JobIdsOf(nextJobs)
                            THEN safeSetItem(cleared, id,
                                   normalizeJobData(JobDataOf(payload.jobData, id)))[id]
                            ELSE cleared[id]]
            nextActive == IF /\ ~IsNull(payload.activeJobId)
                             /\ Val(payload.activeJobId) \in JobIdsOf(nextJobs)
                            THEN Val(payload.activeJobId)
                            ELSE nextJobs[1].id
        IN  /\ RenderBundle(nextJobs, nextActive,
                            normalizeJobData(JobDataOf(payload.jobData, nextActive)), written)
            /\ notify("Imported all jobs")
            /\ UNCHANGED showResetConfirm

(* -------------------------- the jobs specification ----------------------- *)
\* " 3495 " and a name that is not the magic string
Padded3495 == <<" ">> \o Str3495 \o <<" ">>
OtherName == <<"3", "4", "9", "5", "b">>

\* what is answered to the job-name prompt: cancel, nothing, " 3495 "
PromptNames == {None, Some(<<>>), Some(Padded3495)}

\* the ids addJob can make
NewJobIds == {"job_1", "job_2"}

\* two long days of one week: 47 hours
LongDays ==
  <<PayEntry(Ymd(2025, 3, 6), (47 * HourScale) \div 2),
    PayEntry(Ymd(2025, 3, 7), (47 * HourScale) \div 2)>>

\* an exported bundle with the two long days
ExportedBundle ==
  [items |-> None, hourlyRate |-> Some(2000), payCycle |-> Some("weekly"), dayHours |-> Some(LongDays),
   startDate |-> Some(Ymd(2025, 3, 3)), currentDate |-> None, roster |-> None]

RawJob(id, name) == Some([id |-> id, name |-> name])

\* the files given to the import: one whose list keeps the surrounding blanks
\* of a name, one with a repeated id, a blank id and a name that is no string,
\* and one whose list holds no valid job
Payloads ==
  { [jobs |-> Some(<<RawJob(Some("job_1"), Some(Padded3495)),
                     RawJob(Some("job_2"), Some(OtherName))>>),
     jobData |-> [id \in {"job_1", "job_2"} |-> Some(ExportedBundle)],
     activeJobId |-> Some("job_1")],
    [jobs |-> Some(<<RawJob(Some(DEFAULT_JOB_ID), Some(Str3495)),
                     RawJob(Some(DEFAULT_JOB_ID), Some(OtherName)),
                     RawJob(Some(" "), Some(Str3495)),
                     None,
                     RawJob(Some("job_2"), None)>>),
     jobData |-> [id \in {DEFAULT_JOB_ID} |-> Some(ExportedBundle)],
     activeJobId |-> Some("job_2")],
    [jobs |-> Some(<<RawJob(None, Some(Str3495))>>),
     jobData |-> <<>>,
     activeJobId |-> None] }

AddJob == \E name \in PromptNames, jobId \in NewJobIds \ JobIdsOf(jobs) : addJob(name, jobId)
RemoveJob == \E confirmed \in BOOLEAN : removeJob(activeJobId, confirmed)
SwitchJob == \E i \in 1..Len(jobs) : switchJob(jobs[i].id)
ImportAllJobs == \E payload \in Payloads : importAllJobs(payload)
\* 23.5 hours typed into the two days of LongDays
LongDayInput ==
  \E i \in 1..Len(LongDays) : handleHourInput(LongDays[i].date, RawNum(Val(LongDays[i].hours)))

\* the first start of the program: nothing stored
InitJobs ==
  InitWith("America/Toronto", <<JobMeta(DEFAULT_JOB_ID, DEFAULT_JOB_NAME)>>, DEFAULT_JOB_ID,
           createDefaultJobData)

NextJobs ==
  \/ AddJob
  \/ RemoveJob
  \/ SwitchJob
  \/ ImportAllJobs
  \/ LongDayInput
  \/ NotificationTimeout

SpecJobs == InitJobs /\ [][NextJobs]_vars

(* ------------------------------- the roster ------------------------------ *)
\* { ...prev, [mode]: { ...prev[mode], [key]: image } }
WithRosterImage(pics, mode, key, image) ==
  [pics EXCEPT ![mode] = (key :> image) @@ pics[mode]]

\* prev with prev[mode][key] deleted
WithoutRosterImage(pics, mode, key) ==
  LET left == DOMAIN pics[mode] \ {key}
  IN  [pics EXCEPT ![mode] = IF left = {} THEN <<>> ELSE [k \in left |-> pics[mode][k]]]

\* handleRosterFile(ev, mode, key) up to its first await: the file is being
\* read.  job records the job that was active when the file was chosen; the
\* handler keeps no such value.
handleRosterFile(mode, key, file) ==
  /\ uploads' = uploads \cup {[mode |-> mode, key |-> key, file |-> file, job |-> activeJobId]}
  /\ UNCHANGED <<tz, jobs, activeJobId, items, hourlyRate, payCycle, dayHours, startDate,
                 currentDate, notification, showResetConfirm, store, roster, quota>>

\* handleRosterFile after its awaits: the compressed image is set, or the image
\* as it was read when compressing failed, or nothing when reading failed too
rosterFileRead(upload, outcome) ==
  /\ upload \in uploads
  /\ uploads' = uploads \ {upload}
  /\ IF outcome = "failed"
       THEN UNCHANGED <<tz, jobs, activeJobId, items, hourlyRate, payCycle, dayHours,
                        startDate, currentDate, store, roster, quota>>
     ELSE RenderState(jobs, activeJobId, items, hourlyRate, payCycle, dayHours, startDate,
                      currentDate,
                      WithRosterImage(roster, upload.mode, upload.key, <<upload.file, outcome>>),
                      store)
  /\ UNCHANGED <<notification, showResetConfirm>>

\* clearRosterImage(mode, key)
clearRosterImage(mode, key) ==
  /\ Render(jobs, activeJobId, items, hourlyRate, payCycle, dayHours, startDate, currentDate,
            WithoutRosterImage(roster, mode, key), store)
  /\ UNCHANGED <<notification, showResetConfirm>>

(* ----------------------- the profiles specification ---------------------- *)
\* the files read at one time
MaxUploads == 1

\* the roster slots and the files chosen for them
RosterModes == {"weekly"}
RosterKeys == {"2025-03-03"}
RosterFiles == {"a.png"}

\* what the start-date input gives: a date, or the empty text once cleared
StartDateInputs == {<<>>, Ymd(2025, 3, 3)}

EditStartDate == \E date \in StartDateInputs : setStartDate(date)
OpenJob == \E i \in 1..Len(jobs) : switchJob(jobs[i].id)
NewJob == \E jobId \in {"job_1"} \ JobIdsOf(jobs) : addJob(Some(<<>>), jobId)
HandleRosterFile ==
  /\ Cardinality(uploads) < MaxUploads
  /\ \E mode \in RosterModes, key \in RosterKeys, file \in RosterFiles :
       handleRosterFile(mode, key, file)
RosterFileRead ==
  \E upload \in uploads, outcome \in {"compressed", "original", "failed"} :
    rosterFileRead(upload, outcome)
ClearRosterImage ==
  \E mode \in RosterModes : \E key \in DOMAIN roster[mode] : clearRosterImage(mode, key)

NextProfiles ==
  \/ EditStartDate
  \/ SetPayCycle
  \/ OpenJob
  \/ NewJob
  \/ HandleRosterFile
  \/ RosterFileRead
  \/ ClearRosterImage

SpecProfiles == InitJobs /\ [][NextProfiles]_vars

(* ------------------------------ import files ----------------------------- *)
\* the file holds all jobs: Array.isArray(parsed.jobs) and parsed.jobData is
\* an object
IsAllJobsFile(parsed) ==
  /\ "jobs" \in DOMAIN parsed
  /\ "jobData" \in DOMAIN parsed
  /\ ~IsNull(parsed.jobs)

\* the onload handler of handleImportFile.  parsed is None for a text that is
\* no JSON, else Some(the object read).  A field of a single bundle is None
\* when the object has no such field.
handleImportFile(parsed) ==
  IF IsNull(parsed)
    THEN /\ notify("Invalid import file")
         /\ UNCHANGED <<tz, jobs, activeJobId, items, hourlyRate, payCycle, dayHours, startDate,
                        currentDate, showResetConfirm, store, roster, uploads, quota>>
  ELSE IF IsAllJobsFile(Val(parsed)) THEN importAllJobs(Val(parsed))
  ELSE LET file == Val(parsed)
       IN  /\ Render(jobs, activeJobId,
                     IF ~IsNull(file.items) THEN Val(file.items) ELSE items,
                     IF ~IsNull(file.hourlyRate) /\ Val(file.hourlyRate) # 0
                       THEN Val(file.hourlyRate) ELSE hourlyRate,
                     IF file.payCycle \in {Some("biweekly"), Some("semi-monthly"), Some("monthly")}
                       THEN Val(file.payCycle) ELSE payCycle,
                     IF ~IsNull(file.dayHours) THEN Val(file.dayHours) ELSE dayHours,
                     IF ~IsNull(file.startDate) /\ Val(file.startDate) # <<>>
                       THEN Val(file.startDate) ELSE startDate,
                     currentDate,
                     IF ~IsNull(file.roster) THEN Val(file.roster) ELSE roster,
                     store)
           /\ notify("Imported data")
           /\ UNCHANGED showResetConfirm

(* ------------------------ the import specification ----------------------- *)
\* a roster with one image
OneImageRoster == WithRosterImage(EmptyRoster, "weekly", "2025-03-03", <<"a.png", "compressed">>)

\* single-bundle files: one with every field, one with a pay cycle that is
\* none of the three and no other field but the start date, one with no field
SingleFiles ==
  { [items |-> Some(<<Item(7, 100, TRUE, TRUE)>>), hourlyRate |-> Some(2000),
     payCycle |-> Some("monthly"), dayHours |-> Some(LongDays),
     startDate |-> Some(Ymd(2025, 3, 3)), roster |-> Some(OneImageRoster)],
    [items |-> None, hourlyRate |-> None, payCycle |-> Some("weekly"), dayHours |-> None,
     startDate |-> Some(Ymd(2025, 3, 3)), roster |-> None],
    [items |-> None, hourlyRate |-> None, payCycle |-> None, dayHours |-> None,
     startDate |-> None, roster |-> None] }

\* the texts read from the chosen file
ImportFiles == {None} \cup {Some(file) : file \in SingleFiles \cup Payloads}

HandleImportFile == \E parsed \in ImportFiles : handleImportFile(parsed)
EditHourlyRate == \E rate \in {1760, 2500} : setHourlyRate(rate)

NextImport ==
  \/ HandleImportFile
  \/ EditHourlyRate
  \/ SetPayCycle
  \/ OpenJob
  \/ NotificationTimeout

SpecImport == InitJobs /\ [][NextImport]_vars

(* ------------------------------- the start ------------------------------- *)
\* getInitialJobs() on the text stored under JOBS_STORAGE_KEY
getInitialJobs(raw) ==
  LET stored == safeParse(raw, <<>>)
  IN  IF Len(stored) > 0 THEN stored ELSE <<JobMeta(DEFAULT_JOB_ID, DEFAULT_JOB_NAME)>>

\* getInitialActiveJobId(jobs) on the text stored under ACTIVE_JOB_STORAGE_KEY;
\* the text "null" and a text that is no JSON are ids of no job
getInitialActiveJobId(raw, jobList) ==
  IF Len(raw) = 1 /\ raw[1] \in JobIdsOf(jobList) THEN raw[1] ELSE jobList[1].id

\* App() mounted on a storage: the state is set from what is stored, the first
\* render's effects write it back, and the file reads of the page before are
\* gone
App(jobsText, activeText, storage) ==
  LET initialJobs == getInitialJobs(jobsText)
      initialActiveJobId == getInitialActiveJobId(activeText, initialJobs)
      initialJobData == loadJobData(storage, initialActiveJobId)
  IN  /\ RenderState(initialJobs, initialActiveJobId, initialJobData.items,
                     initialJobData.hourlyRate, initialJobData.payCycle,
                     initialJobData.dayHours, initialJobData.startDate,
                     initialJobData.currentDate, initialJobData.roster, storage)
      /\ uploads' = {}
      /\ notification' = ""
      /\ showResetConfirm' = FALSE

(* ------------------------- the start specification ----------------------- *)
\* the texts a key can hold that the program did not write
BrokenTexts == {Absent, JsonNull, Unparsable}

\* what is found under JOBS_STORAGE_KEY and ACTIVE_JOB_STORAGE_KEY when the
\* page is opened: what the program wrote, or a broken text, or the id of
\* the added job
JobsTexts == BrokenTexts \cup {<<jobs>>}
ActiveTexts == BrokenTexts \cup {<<id>> : id \in {activeJobId, "job_1"}}

\* a stored bundle with one of its texts broken, or none
BrokenBundles(b) == {b} \cup {[b EXCEPT ![key] = text] : key \in DOMAIN b, text \in BrokenTexts}

\* the page is opened on a storage in which texts of the job to load are broken
OpenApp ==
  \E jobsText \in JobsTexts, activeText \in ActiveTexts :
    LET loaded == getInitialActiveJobId(activeText, getInitialJobs(jobsText))
    IN  \E b \in BrokenBundles(store[loaded]) :
          App(jobsText, activeText, [store EXCEPT ![loaded] = b])

NextStart ==
  \/ OpenApp
  \/ EditHourlyRate
  \/ SetPayCycle
  \/ NewJob
  \/ OpenJob

SpecStart == InitJobs /\ [][NextStart]_vars

(* --------------------- the full-storage specification -------------------- *)
\* the first render with nothing stored and a storage that takes no write
InitQuota ==
  /\ tz = "America/Toronto"
  /\ jobs = getInitialJobs(Absent)
  /\ activeJobId = getInitialActiveJobId(Absent, jobs)
  /\ items = createDefaultJobData.items
  /\ hourlyRate = createDefaultJobData.hourlyRate
  /\ payCycle = createDefaultJobData.payCycle
  /\ dayHours = createDefaultJobData.dayHours
  /\ startDate = createDefaultJobData.startDate
  /\ currentDate = createDefaultJobData.currentDate
  /\ roster = createDefaultJobData.roster
  /\ uploads = {}
  /\ quota = TRUE
  /\ notification = ""
  /\ showResetConfirm = FALSE
  /\ store = [id \in JobIds |-> AbsentBundle]

NextQuota ==
  \/ EditHourlyRate
  \/ SetPayCycle
  \/ AddItem
  \/ RemoveItem
  \/ NewJob
  \/ ImportAllJobs
  \/ NotificationTimeout

SpecQuota == InitQuota /\ [][NextQuota]_vars

(* ----------------------- the indexer specification ---------------------- *)
\* the number of dates that can hold hours
MaxIndexDays == 3

\* the dates that hours are entered for: around the change to daylight-saving
\* time of 2025-03-09, the middle and the end of a month, and a new year
IndexDates ==
  {Ymd(2025, 2, 28), Ymd(2025, 3, 10), Ymd(2025, 3, 15), Ymd(2025, 3, 16),
   Ymd(2025, 3, 31), Ymd(2025, 4, 1), Ymd(2026, 1, 1)}

\* the anchor dates: before all but one of the dates, and in their midst
IndexAnchors == {Ymd(2025, 3, 3), Ymd(2025, 3, 17)}

\* 23.5 hours typed into the hours field of a date
IndexHours ==
  \E date \in IndexDates :
    /\ \/ Len(dayHours) < MaxIndexDays
       \/ \E i \in 1..Len(dayHours) : dayHours[i].date = date
    /\ handleHourInput(date, RawNum((47 * HourScale) \div 2))

IndexAnchor == \E date \in IndexAnchors : setStartDate(date)

\* the program starts with nothing stored but an anchor
InitIndexer ==
  \E zone \in TimeZones, name \in {DEFAULT_JOB_NAME, Str3495}, anchor \in IndexAnchors :
    InitWith(zone, <<JobMeta(DEFAULT_JOB_ID, name)>>, DEFAULT_JOB_ID,
             [createDefaultJobData EXCEPT !.startDate = anchor])

NextIndexer ==
  \/ IndexHours
  \/ IndexAnchor
  \/ SetPayCycle

SpecIndexer == InitIndexer /\ [][NextIndexer]_vars

(* ================================ properties ============================= *)
(* The reference values below are written from the stated rules: sums over  *)
(* the stored days of a week or bi-week, not the loops of the memo.         *)

\* the stored days that have hours
RefEntries == {dayHours[i] : i \in {j \in 1..Len(dayHours) : ~IsNull(dayHours[j].hours)}}

\* for each of them its date, hours, week and bi-week index, and its position
\* among the dates in ascending order
RefDays ==
  LET entries == RefEntries
  IN  { [date |-> e.date, hours |-> Val(e.hours),
         week |-> getIndexInfo(tz, e.date, startDate).weekIndex,
         biWeek |-> getIndexInfo(tz, e.date, startDate).biWeekIndex,
         rank |-> 1 + Cardinality({x \in entries : DateLess(x.date, e.date)})] :
        e \in entries }

\* total hours of a set of days
RECURSIVE SumHours(_)
SumHours(S) ==
  IF S = {} THEN 0
  ELSE LET x == CHOOSE y \in S : TRUE IN x.hours + SumHours(S \ {x})

\* hours of the week of day x on earlier dates, of its whole week and bi-week
RefWorkedBefore(days, x) == SumHours({y \in days : y.week = x.week /\ y.rank < x.rank})
RefWeekTotal(days, x) == SumHours({y \in days : y.week = x.week})
RefBiWeekTotal(days, x) == SumHours({y \in days : y.biWeek = x.biWeek})

RefZeroRow(d) == [date |-> d, hours |-> 0, earnings |-> 0, incomeTax |-> 0,
                  employeeInsurance |-> 0, cpp |-> 0, afterTax |-> 0]

\* the three deductions of a row are round2 of 11.7%, 1.64% and 5.482% of an
\* amount of money units
RefDeductions(row, taxable) ==
  /\ row.incomeTax \in round2Rate(taxable, INCOME_TAX_RATE)
  /\ row.employeeInsurance \in round2Rate(taxable, EMPLOYEE_INSURANCE_RATE)
  /\ row.cpp \in round2Rate(taxable, CPP_RATE)

\* C1: in every row of detailedHistory the after-tax amount is round2 of the
\* row's stored (rounded) earnings less its three stored deductions.  The
\* stored amounts are whole cents, so the difference is its own round2.
C1_SumInvariant ==
  \A h \in detailedHistory : \A i \in 1..Len(h) :
    h[i].afterTax = h[i].earnings - h[i].incomeTax - h[i].employeeInsurance - h[i].cpp

\* gross pay (money units) of h hours after workedBefore hours in the week:
\* the hours up to 44 in the week at the rate, the others at 1.5 times the
\* rate, all with the 4% bonus
RefStandardGross(h, workedBefore) ==
  LET regular == Max(0, Min(h, WEEKLY_OVERTIME_THRESHOLD * HourScale - workedBefore))
  IN  hourlyRate * (BonusFactor * regular + OvertimeFactor * (h - regular))

\* a row is the row of day x with the gross and the taxable amount; exact: the
\* earnings field is the gross itself, else round2 of the gross
RefRow(row, x, gross, taxable, exact) ==
  IF x.hours <= 0 THEN row = RefZeroRow(x.date)
  ELSE /\ row.date = x.date
       /\ row.hours = x.hours
       /\ RefDeductions(row, taxable)
       /\ IF exact THEN row.earnings * MoneyScale = gross
                   ELSE row.earnings \in round2(gross)

\* detailedHistory is the standard-regime reference
RefStandard(exact) ==
  LET days == RefDays
  IN  \A h \in detailedHistory :
        /\ Len(h) = Cardinality(days)
        /\ \A x \in days :
             LET gross == RefStandardGross(x.hours, RefWorkedBefore(days, x))
             IN  RefRow(h[x.rank], x, gross, gross, exact)

\* C2, as stated: under the standard regime detailedHistory is the reference:
\* one row per stored day in date order, regular hours up to 44 per week, the
\* rest at 1.5, the row's earnings the gross amount, the deductions round2 of
\* the rates times the whole gross, an all-zero row for a day without hours.
C2_StandardReferenceExact == ~useUnlawfulRule => RefStandard(TRUE)

\* C2, amended: the same reference, the row's earnings being round2 of the
\* gross amount while the deductions are taken from the unrounded gross.
C2_StandardReference == ~useUnlawfulRule => RefStandard(FALSE)

\* C2, the instance: rate 20, five 10-hour days from the anchor date on, the
\* fifth day earning 270.40
C2_FiveTenHourDays ==
  /\ ~useUnlawfulRule
  /\ hourlyRate = 2000
  /\ startDate = PayDate(1)
  /\ MaxPayDays >= 5
  /\ Len(dayHours) = 5
  /\ \A i \in 1..5 : dayHours[i].hours = Some(10 * HourScale)
  /\ \E h \in detailedHistory : h[5].earnings = 27040 /\ h[5].incomeTax = 3164

\* The hours of a row that were paid at the 1.5 multiplier, read off its
\* earnings: earnings = rate * 1.04 * (hours + 0.5 * overtime).  One hour unit
\* of overtime is worth more than a cent, so rounding cannot hide it.
PaidOvertime(row) ==
  LET extra == row.earnings * MoneyScale - hourlyRate * BonusFactor * row.hours
      perUnit == hourlyRate * (OvertimeFactor - BonusFactor)
  IN  (2 * extra + perUnit) \div (2 * perUnit)

\* the hours of day x that lie beyond the 44th hour of its week in date order
RefBeyond(days, x) ==
  Max(0, Min(x.hours, RefWorkedBefore(days, x) + x.hours
                        - WEEKLY_OVERTIME_THRESHOLD * HourScale))

\* sum of f over the set S
RECURSIVE SumOver(_, _)
SumOver(f, S) ==
  IF S = {} THEN 0
  ELSE LET x == CHOOSE y \in S : TRUE IN f[x] + SumOver(f, S \ {x})

\* C3: under the standard regime the hours paid at 1.5 in a week sum to
\* max(0, week total - 44), none when the week totals exactly 44, and they
\* are the hours beyond the 44th of the week in date order.
C3_WeeklyOvertime ==
  ~useUnlawfulRule =>
    LET days == RefDays
    IN  \A h \in detailedHistory :
          LET paid == [x \in days |-> PaidOvertime(h[x.rank])]
          IN  \A x \in days :
                /\ paid[x] = RefBeyond(days, x)
                /\ h[x.rank].earnings \in
                     round2(hourlyRate * (BonusFactor * (x.hours - paid[x])
                                            + OvertimeFactor * paid[x]))
                /\ SumOver(paid, {y \in days : y.week = x.week})
                     = Max(0, RefWeekTotal(days, x) - WEEKLY_OVERTIME_THRESHOLD * HourScale)
                /\ RefWeekTotal(days, x) = WEEKLY_OVERTIME_THRESHOLD * HourScale
                     => paid[x] = 0

\* C3, its cases: a week of two days totalling exactly 44 hours, and a week
\* whose 44th hour falls inside a day
C3_WeekAtAndOverThreshold ==
  /\ ~useUnlawfulRule
  /\ LET days == RefDays
     IN  /\ \E x \in days :
              /\ RefWeekTotal(days, x) = WEEKLY_OVERTIME_THRESHOLD * HourScale
              /\ RefWorkedBefore(days, x) > 0
         /\ \E x \in days : \E h \in detailedHistory :
              /\ PaidOvertime(h[x.rank]) > 0
              /\ PaidOvertime(h[x.rank]) < x.hours

\* min(h, round2((h / T) * (T - 88))) in hour units, for T > 88: the values at
\* most half a hundredth of an hour away from the quotient, capped by h
RefShares(h, T) ==
  LET n == h * (T - BIWEEKLY_TAXFREE_THRESHOLD * HourScale)
      d == (HourScale \div 100) * T
      k == n \div d
  IN  { Min(h, (HourScale \div 100) * c) :
          c \in {c \in {k, k + 1} : 2 * (c * d - n) <= d /\ 2 * (n - c * d) <= d} }

\* detailedHistory is the special-regime reference
RefSpecial(exact) ==
  LET days == RefDays
  IN  \A h \in detailedHistory :
        /\ Len(h) = Cardinality(days)
        /\ \A x \in days :
             LET T == RefBiWeekTotal(days, x)
                 shares == IF T > BIWEEKLY_TAXFREE_THRESHOLD * HourScale
                             THEN RefShares(x.hours, T) ELSE {0}
             IN  \E taxFreeShare \in shares :
                   RefRow(h[x.rank], x, x.hours * hourlyRate * BonusFactor,
                          (x.hours - taxFreeShare) * hourlyRate * BonusFactor, exact)

\* C4, as stated: under the special regime detailedHistory is the reference:
\* the tax-free share of a day is min(h, round2((h/T)*(T-88))) when the
\* bi-week total T exceeds 88 and 0 otherwise, the row's earnings are
\* h*rate*1.04 whatever the weekly hours, and the deductions are round2 of the
\* rates times (h - share)*rate*1.04.
C4_SpecialReferenceExact == useUnlawfulRule => RefSpecial(TRUE)

\* C4, amended: the same reference, the row's earnings being round2 of
\* h*rate*1.04.
C4_SpecialReference == useUnlawfulRule => RefSpecial(FALSE)

\* C4, its case: a bi-week above 88 hours in which a day's share was rounded
C4_RoundedShare ==
  /\ useUnlawfulRule
  /\ LET days == RefDays
     IN  \E x \in days :
           LET T == RefBiWeekTotal(days, x)
           IN  /\ T > BIWEEKLY_TAXFREE_THRESHOLD * HourScale
               /\ (x.hours * (T - BIWEEKLY_TAXFREE_THRESHOLD * HourScale))
                    % ((HourScale \div 100) * T) # 0
               /\ \E h \in detailedHistory : h[x.rank].incomeTax > 0

\* least and greatest element of a set of numbers
SetMin(S) == CHOOSE x \in S : \A y \in S : x <= y
SetMax(S) == CHOOSE x \in S : \A y \in S : x >= y

\* the tax-free shares of the days of the bi-week of day x sum to its excess
\* over 88 hours, up to half a hundredth of an hour per day, none above its
\* day's hours; shares[i] is the set of values of the i-th day in date order
RefSharesSumToExcess(days, x, shares) ==
  LET biWeek == {y \in days : y.biWeek = x.biWeek}
      excess == RefBiWeekTotal(days, x) - BIWEEKLY_TAXFREE_THRESHOLD * HourScale
      least == [y \in days |-> SetMin(shares[y.rank])]
      most == [y \in days |-> SetMax(shares[y.rank])]
      tolerance == Cardinality(biWeek) * (HourScale \div 100)
  IN  /\ \A y \in biWeek : least[y] >= 0 /\ most[y] <= y.hours
      /\ 2 * (excess - SumOver(least, biWeek)) <= tolerance
      /\ 2 * (SumOver(most, biWeek) - excess) <= tolerance

\* C5: under the special regime, in a bi-week of at most 88 hours every day's
\* tax-free share is 0 and the deductions are taken from the whole earnings;
\* in a bi-week above 88 hours the shares sum to the excess over 88 within the
\* rounding of each day's share, and no share exceeds its day's hours.
C5_TaxFreeShares ==
  useUnlawfulRule =>
    LET days == RefDays
        shares == TaxFreeShares(tz, dayHours, startDate)
    IN  /\ Len(shares) = Cardinality(days)
        /\ \A x \in days :
             IF RefBiWeekTotal(days, x) <= BIWEEKLY_TAXFREE_THRESHOLD * HourScale
               THEN /\ shares[x.rank] = {0}
                    /\ \A h \in detailedHistory :
                         x.hours > 0 =>
                           RefDeductions(h[x.rank], x.hours * hourlyRate * BonusFactor)
               ELSE RefSharesSumToExcess(days, x, shares)

\* C5, its cases: a bi-week above 88 hours whose shares are not all whole
\* hundredths before rounding
C5_BiWeekAboveThreshold ==
  /\ useUnlawfulRule
  /\ LET days == RefDays
         shares == TaxFreeShares(tz, dayHours, startDate)
     IN  \E x \in days :
           /\ RefBiWeekTotal(days, x) > BIWEEKLY_TAXFREE_THRESHOLD * HourScale
           /\ SetMin(shares[x.rank]) > 0
           /\ SumOver([y \in days |-> SetMin(shares[y.rank])],
                      {y \in days : y.biWeek = x.biWeek})
                # RefBiWeekTotal(days, x) - BIWEEKLY_TAXFREE_THRESHOLD * HourScale

\* the display name of the active job: the job of the active id, the first job
\* when no job has it
RefActiveName ==
  IF \E i \in 1..Len(jobs) : jobs[i].id = activeJobId
    THEN jobs[CHOOSE i \in 1..Len(jobs) :
                /\ jobs[i].id = activeJobId
                /\ \A j \in 1..(i - 1) : jobs[j].id # activeJobId].name
    ELSE IF Len(jobs) > 0 THEN jobs[1].name ELSE <<>>

Blanks(n) == [i \in 1..n |-> " "]

\* name is "3495" between any number of blanks
RefIs3495Padded(name) ==
  \E i \in 0..Len(name) : \E j \in 0..Len(name) :
    name = Blanks(i) \o Str3495 \o Blanks(j)

\* the rows of the stored days under the two regimes
RefRegimeRows(special) ==
  computeDetailedDays(tz, dayHours, hourlyRate, startDate, special)

RefHourDates == {dayHours[i].date : i \in {i \in 1..Len(dayHours) : ~IsNull(dayHours[i].hours)}}

RowDates(history) == {history[i].date : i \in 1..Len(history)}

\* the dates in the day lists of the pay periods of a summary
PeriodDates(summary) ==
  UNION {{summary[i].days[k].date : k \in 1..Len(summary[i].days)} : i \in 1..Len(summary)}

\* the dates with a row, and the dates in the pay periods, are date of the
\* entries with hours; an entry of 0 hours has an all-zero row
RefRowsOfStoredHours ==
  /\ \A h \in detailedHistory :
       /\ RowDates(h) = RefHourDates
       /\ \A i \in 1..Len(dayHours) :
            dayHours[i].hours = Some(0) =>
              \E k \in 1..Len(h) : h[k] = RefZeroRow(dayHours[i].date)
  /\ \A summary \in biWeeklySummary : PeriodDates(summary) = RefHourDates

\* a step that clears the hours field of a date leaves no entry of that date,
\* with or without hours: by the above the date then has no row and is in no
\* pay period
RefClearedDateHasNoRow ==
  \A date \in Dates :
    handleHourInput(date, RawEmpty) =>
      \A i \in 1..Len(dayHours') : dayHours'[i].date # date

\* C7: detailedHistory has a row for a date if and only if dayHours holds an
\* entry of that date with non-null hours, and the pay periods list exactly
\* those dates; after handleHourInput(date, "") the date has no row and is in
\* no pay period; an entry whose hours are 0 has an all-zero row.
C7_RowsOfStoredHours == [](RefRowsOfStoredHours) /\ [][RefClearedDateHasNoRow]_vars

\* C7, its cases: a time-picker entry that has no hours yet next to an entry
\* with hours: the list holds an entry with null hours and no row, and an
\* entry with hours and a row
C7_EntryWithoutHours ==
  /\ \E i \in 1..Len(dayHours) :
       /\ IsNull(dayHours[i].hours)
       /\ \A h \in detailedHistory : dayHours[i].date \notin RowDates(h)
  /\ \E i \in 1..Len(dayHours) :
       /\ ~IsNull(dayHours[i].hours)
       /\ \A h \in detailedHistory : dayHours[i].date \in RowDates(h)

\* the lunch minutes in effect for an entry: the stored minutes, else none for
\* an entry of the lunch checkbox left unchecked, else the default 30
RefEffectiveLunch(e) ==
  IF ~IsNull(e.lunchMinutes) THEN Val(e.lunchMinutes)
  ELSE IF e.lunch = Some(FALSE) THEN 0
  ELSE DEFAULT_LUNCH_MINUTES

\* (endMinutes - startMinutes - lunchMinutes) / 60 in hour units, null outside
\* of 0..24 hours
RefSpanHours(e) ==
  LET minutes == (Val(e.end)[1] * 60 + Val(e.end)[2])
                   - (Val(e.start)[1] * 60 + Val(e.start)[2]) - RefEffectiveLunch(e)
  IN  IF minutes >= 0 /\ minutes <= 24 * 60
        THEN Some((minutes * HourScale) \div 60) ELSE None

\* C8: every stored entry with both start and end has workedHours
\* (end - start - lunchMinutes) / 60 for its effective lunch minutes when that
\* is within 0..24 hours, and null otherwise, whichever handler wrote it.
C8_SpanHours ==
  \A i \in 1..Len(dayHours) :
    ~IsNull(dayHours[i].start) /\ ~IsNull(dayHours[i].end) =>
      dayHours[i].hours = RefSpanHours(dayHours[i])

\* a number of hour units rounded to the hundredth of an hour, a half up
RefRound2Hours(u) == (HourScale \div 100) * ((2 * u + (HourScale \div 100)) \div (2 * (HourScale \div 100)))

\* max(0, entered - lunchMinutes / 60) rounded to 2 decimals
RefDirectHours(entered, lunchMinutes) ==
  Max(0, RefRound2Hours(entered - (lunchMinutes * HourScale) \div 60))

\* the hour count entered for an entry without start and end: the retained
\* originalHours, the stored hours of an entry that retains none
RefEntered(e) == IF ~IsNull(e.originalHours) THEN e.originalHours ELSE e.hours

\* C9: every stored entry without start and end that has a directly entered
\* hour count has workedHours max(0, originalHours - lunchMinutes / 60) rounded
\* to 2 decimals, for its effective lunch minutes.
C9_DirectHours ==
  \A i \in 1..Len(dayHours) :
    LET e == dayHours[i]
    IN  IsNull(e.start) /\ IsNull(e.end) /\ ~IsNull(e.hours) =>
          e.hours = Some(RefDirectHours(Val(RefEntered(e)), RefEffectiveLunch(e)))

\* the entry of a date in a list of days
RefEntryOf(days, date) == days[CHOOSE i \in 1..Len(days) : days[i].date = date]

\* a step that enters a number of lunch minutes for an entry without start and
\* end that has an hour count stores the hours of that count and these minutes,
\* and retains the count
RefLunchStepRederives ==
  \A date \in Dates : \A raw \in {r \in LunchRaws : r.kind = "num"} :
    /\ handleLunchMinutesInput(date, raw)
    /\ \E i \in 1..Len(dayHours) :
         /\ dayHours[i].date = date
         /\ IsNull(dayHours[i].start) /\ IsNull(dayHours[i].end)
         /\ ~IsNull(RefEntered(dayHours[i]))
    => LET before == RefEntryOf(dayHours, date)
           after == RefEntryOf(dayHours', date)
           lunchMinutes == Max(0, Min(180, (raw.n + 1) \div 2))
       IN  /\ after.lunchMinutes = Some(lunchMinutes)
           /\ after.originalHours = RefEntered(before)
           /\ after.hours = Some(RefDirectHours(Val(RefEntered(before)), lunchMinutes))

RefLunchOfDate(days, date) ==
  IF \A i \in 1..Len(days) : days[i].date # date THEN DEFAULT_LUNCH_MINUTES
  ELSE LET e == RefEntryOf(days, date)
       IN  IF ~IsNull(e.lunchMinutes) THEN Max(0, Min(180, Val(e.lunchMinutes)))
           ELSE IF e.lunch = Some(FALSE) THEN 0
           ELSE DEFAULT_LUNCH_MINUTES

\* the hours typed into an hours field that are stored: 0..24 hours
RefValidHours == {raw \in HourRaws : raw.kind = "num" /\ raw.n >= 0 /\ raw.n <= 24 * HourScale}

\* a step of handleHourInput with valid hours, or of handleTimeInput, stores
\* the lunch minutes of the date and hours less these minutes
RefStepAppliesLunch ==
  \A date \in Dates :
    LET lunchMinutes == RefLunchOfDate(dayHours, date)
    IN  /\ \A raw \in RefValidHours :
             handleHourInput(date, raw) =>
               LET after == RefEntryOf(dayHours', date)
               IN  /\ after.lunchMinutes = Some(lunchMinutes)
                   /\ after.hours = Some(Max(0, raw.n - (lunchMinutes * HourScale) \div 60))
        /\ \A field \in {"start", "end"} : \A value \in TimeValues :
             handleTimeInput(date, field, value) =>
               LET after == RefEntryOf(dayHours', date)
               IN  /\ after.lunchMinutes = Some(lunchMinutes)
                   /\ ~IsNull(after.hours) =>
                        after.hours = RefSpanHours(after)

\* C11: the lunch minutes applied by an hour input and by a time input are 30
\* when lunch was never configured for the date (a date without an entry
\* included), else the stored minutes clamped to 0..180, and 0 when only the
\* legacy flag lunch: false is there; both inputs follow the same rule.
C11_LunchApplied == [][RefStepAppliesLunch]_vars

\* the hours typed into an hours field that are refused: text, below 0, above 24
RefInvalidHours ==
  {raw \in HourRaws : raw.kind = "text" \/ (raw.kind = "num" /\ (raw.n < 0 \/ raw.n > 24 * HourScale))}

\* a step of handleHourInput with refused hours changes the notification only
RefInvalidHoursRefused ==
  \A date \in Dates : \A raw \in RefInvalidHours :
    handleHourInput(date, raw) =>
      /\ dayHours' = dayHours
      /\ store' = store
      /\ <<jobs, activeJobId, items, hourlyRate, payCycle, startDate, currentDate, roster>>'
           = <<jobs, activeJobId, items, hourlyRate, payCycle, startDate, currentDate, roster>>
      /\ notification' = "Hours must be a number between 0 and 24"

\* C12: handleHourInput with a value that is not a number, below 0 or above 24
\* leaves dayHours and every other persisted value as they were and raises the
\* validation notification; nothing is stored or clamped.
C12_InvalidHoursRefused == [][RefInvalidHoursRefused]_vars

\* C12, its case: the validation notification is shown over stored days
C12_ValidationShown ==
  /\ notification = "Hours must be a number between 0 and 24"
  /\ dayHours # <<>>

\* start and end of an entry are set and the span less the minutes is negative
\* or above 24 hours
RefSpanOutOfRange(e, lunchMinutes) ==
  /\ ~IsNull(e.start) /\ ~IsNull(e.end)
  /\ LET minutes == (Val(e.end)[1] * 60 + Val(e.end)[2])
                      - (Val(e.start)[1] * 60 + Val(e.start)[2]) - lunchMinutes
     IN  minutes < 0 \/ minutes > 24 * 60

\* the entry of a date, the empty entry when there is none
RefEntryOrEmpty(days, date) ==
  IF \E i \in 1..Len(days) : days[i].date = date THEN RefEntryOf(days, date)
  ELSE [date |-> date, start |-> None, end |-> None, hours |-> None, lunch |-> None,
        lunchMinutes |-> None, originalHours |-> None]

\* a step of handleTimeInput, or of handleLunchMinutesInput with a number of
\* minutes, that leaves a span out of range stores null hours and the start and
\* end as they were entered
RefOutOfRangeStepStoresNull ==
  \A date \in Dates :
    LET before == RefEntryOrEmpty(dayHours, date)
    IN  /\ \A field \in {"start", "end"} : \A value \in TimeValues :
             handleTimeInput(date, field, value) =>
               LET after == RefEntryOf(dayHours', date)
               IN  /\ after[field] = value
                   /\ \A other \in {"start", "end"} \ {field} : after[other] = before[other]
                   /\ RefSpanOutOfRange(after, Val(after.lunchMinutes)) => IsNull(after.hours)
        /\ \A raw \in {r \in LunchRaws : r.kind = "num"} :
             handleLunchMinutesInput(date, raw) =>
               LET after == RefEntryOf(dayHours', date)
               IN  /\ after.start = before.start /\ after.end = before.end
                   /\ RefSpanOutOfRange(after, Val(after.lunchMinutes)) => IsNull(after.hours)

\* an entry whose span is out of range for its stored minutes and whose hours
\* are null has no row
RefOutOfRangeHasNoRow ==
  \A i \in 1..Len(dayHours) :
    /\ ~IsNull(dayHours[i].lunchMinutes)
    /\ RefSpanOutOfRange(dayHours[i], Val(dayHours[i].lunchMinutes))
    /\ IsNull(dayHours[i].hours)
    => \A h \in detailedHistory : dayHours[i].date \notin RowDates(h)

\* C13: when start and end are both set and (end - start - lunchMinutes) / 60
\* is negative or above 24, handleTimeInput and handleLunchMinutesInput store
\* null hours, the day has no row in detailedHistory, and start and end stay
\* stored as entered.
C13_OutOfRangeSpan == [](RefOutOfRangeHasNoRow) /\ [][RefOutOfRangeStepStoresNull]_vars

\* C13, its case: end before start, both stored, hours null
C13_EndBeforeStart ==
  \E i \in 1..Len(dayHours) :
    /\ dayHours[i].start = Some(<<17, 20>>)
    /\ dayHours[i].end = Some(<<9, 0>>)
    /\ IsNull(dayHours[i].hours)
    /\ \A h \in detailedHistory : dayHours[i].date \notin RowDates(h)

\* C14: dayHours holds at most one entry per date.
C14_OneEntryPerDate ==
  \A i \in 1..Len(dayHours) : \A j \in 1..Len(dayHours) :
    dayHours[i].date = dayHours[j].date => i = j

\* C14, its case: a date of an auto-filled month was entered over
C14_EnteredOverAutoFill ==
  /\ Len(dayHours) > 1
  /\ \E i \in 1..Len(dayHours) :
       dayHours[i].date \in Dates /\ ~IsNull(dayHours[i].originalHours)

\* the dates of the stored entries
RefStoredDates == {dayHours[i].date : i \in 1..Len(dayHours)}

\* d1 is d2 or an earlier date
RefNotAfter(d1, d2) ==
  \/ d1[1] < d2[1]
  \/ d1[1] = d2[1] /\ d1[2] < d2[2]
  \/ d1[1] = d2[1] /\ d1[2] = d2[2] /\ d1[3] <= d2[3]

\* the period index of a date under each regime
RefIndexOf(regime, date) ==
  IF regime = "weekly" THEN getIndexInfo(tz, date, startDate).weekIndex
  ELSE IF regime = "biweekly" THEN getIndexInfo(tz, date, startDate).biWeekIndex
  ELSE IF regime = "semi-monthly" THEN getSemiMonthlyInfo(date).index
  ELSE getMonthlyInfo(date).index

\* C15: under each regime and for the anchor in force, the period index does
\* not decrease with the date: for stored dates d1 <= d2, dates before the
\* anchor included, index(d1) <= index(d2), and the anchor's own index is not
\* above that of a later date nor below that of an earlier one.
C15_IndexMonotonic ==
  \A regime \in {"weekly", "biweekly", "semi-monthly", "monthly"} :
    \A d1 \in RefStoredDates \cup {startDate} : \A d2 \in RefStoredDates \cup {startDate} :
      RefNotAfter(d1, d2) => RefIndexOf(regime, d1) <= RefIndexOf(regime, d2)

\* C15, its case: a stored date before the anchor and one after it
C15_DatesAroundAnchor ==
  /\ \E d \in RefStoredDates : RefNotAfter(d, startDate) /\ d # startDate
  /\ \E d \in RefStoredDates : RefNotAfter(startDate, d) /\ d # startDate
  /\ \A h \in detailedHistory : Len(h) = Len(dayHours)

\* the days of the years from 2000 to the one before y
RECURSIVE RefDaysOfYearsBefore(_)
RefDaysOfYearsBefore(y) ==
  IF y <= 2000 THEN 0
  ELSE RefDaysOfYearsBefore(y - 1)
         + (IF ((y - 1) % 4 = 0 /\ (y - 1) % 100 # 0) \/ (y - 1) % 400 = 0 THEN 366 ELSE 365)

\* the last day of a month of the calendar
RefLastDay(y, m) ==
  IF m \in {1, 3, 5, 7, 8, 10, 12} THEN 31
  ELSE IF m # 2 THEN 30
  ELSE IF (y % 4 = 0 /\ y % 100 # 0) \/ y % 400 = 0 THEN 29 ELSE 28

\* the days of the months of year y before month m
RECURSIVE RefDaysOfMonthsBefore(_, _)
RefDaysOfMonthsBefore(y, m) ==
  IF m <= 1 THEN 0 ELSE RefDaysOfMonthsBefore(y, m - 1) + RefLastDay(y, m - 1)

\* the whole calendar days from date a to date b
RefCalendarDays(a, b) ==
  (RefDaysOfYearsBefore(b[1]) + RefDaysOfMonthsBefore(b[1], b[2]) + b[3])
    - (RefDaysOfYearsBefore(a[1]) + RefDaysOfMonthsBefore(a[1], a[2]) + a[3])

\* the semi-monthly and the monthly bucket of a date
RefSemiMonthly(d) ==
  [index |-> d[1] * 24 + (d[2] - 1) * 2 + (IF d[3] <= 15 THEN 0 ELSE 1),
   start |-> Some(<<d[1], d[2], IF d[3] <= 15 THEN 1 ELSE 16>>),
   end |-> Some(<<d[1], d[2], IF d[3] <= 15 THEN 15 ELSE RefLastDay(d[1], d[2])>>)]

RefMonthly(d) ==
  [index |-> d[1] * 12 + (d[2] - 1),
   start |-> Some(<<d[1], d[2], 1>>),
   end |-> Some(<<d[1], d[2], RefLastDay(d[1], d[2])>>)]

\* C16: for every stored date and the anchor in force, weekIndex is
\* floor(D / 7) and biWeekIndex floor(D / 14), D the whole calendar days from
\* the anchor to the date whatever the time zone; the semi-monthly index is
\* year*24 + month*2 + half with the buckets 1..15 and 16..last day, the
\* monthly index year*12 + month with the bucket first..last day of the month,
\* and the date lies in its bucket.
C16_IndexerReference ==
  \A d \in RefStoredDates :
    LET D == RefCalendarDays(startDate, d)
        semi == getSemiMonthlyInfo(d)
        month == getMonthlyInfo(d)
    IN  /\ getIndexInfo(tz, d, startDate).weekIndex = D \div 7
        /\ getIndexInfo(tz, d, startDate).biWeekIndex = D \div 14
        /\ semi = RefSemiMonthly(d)
        /\ month = RefMonthly(d)
        /\ RefNotAfter(Val(semi.start), d) /\ RefNotAfter(d, Val(semi.end))
        /\ RefNotAfter(Val(month.start), d) /\ RefNotAfter(d, Val(month.end))

\* the rows of a history at the positions where a bucket key first appears
RefFirstRows(history, key(_)) ==
  {i \in 1..Len(history) : \A j \in 1..(i - 1) : key(history[j].date) # key(history[i].date)}

\* the periods of a summary are the buckets of the rows in the order of their
\* first rows, each with the rows of its bucket in their order
RefPeriodsInOrder(summary, history, key(_)) ==
  LET first == RefFirstRows(history, key)
  IN  /\ Len(summary) = Cardinality(first)
      /\ \A n \in 1..Len(summary) :
           LET i == CHOOSE i \in first : Cardinality({j \in first : j <= i}) = n
               rows == {j \in 1..Len(history) : key(history[j].date) = key(history[i].date)}
           IN  /\ Len(summary[n].days) = Cardinality(rows)
               /\ \A k \in 1..Len(summary[n].days) :
                    \E j \in rows :
                      /\ Cardinality({l \in rows : l <= j}) = k
                      /\ summary[n].days[k].date = history[j].date

\* the bucket keys of the pay cycles
RefSemiKey(d) == <<d[1], d[2], d[3] <= 15>>
RefMonthKey(d) == <<d[1], d[2]>>
RefBiWeekKey(d) == getIndexInfo(tz, d, startDate).biWeekIndex

\* C17: under the semi-monthly and the monthly pay cycle the periods of the
\* summary are numbered 1..N in the order their buckets first appear in the
\* date-sorted rows, so the numbers grow with the calendar without gaps; under
\* the bi-weekly pay cycle the number of a period is its biWeekIndex + 1.
C17_PeriodNumbers ==
  \A h \in detailedHistory :
    LET summary == Summarize(tz, h, payCycle, startDate)
    IN  IF payCycle \in {"semi-monthly", "monthly"}
          THEN /\ IF payCycle = "monthly"
                    THEN RefPeriodsInOrder(summary, h, RefMonthKey)
                    ELSE RefPeriodsInOrder(summary, h, RefSemiKey)
               /\ \A n \in 1..Len(summary) :
                    /\ summary[n].index = n
                    /\ n > 1 => /\ summary[n].days[1].date # summary[n - 1].days[1].date
                                /\ RefNotAfter(summary[n - 1].days[1].date,
                                               summary[n].days[1].date)
          ELSE /\ RefPeriodsInOrder(summary, h, RefBiWeekKey)
               /\ \A n \in 1..Len(summary) :
                    summary[n].index = RefBiWeekKey(summary[n].days[1].date) + 1

\* C17, its case: a semi-monthly summary of three periods
C17_ThreePeriods ==
  /\ payCycle = "semi-monthly"
  /\ \E summary \in biWeeklySummary : Len(summary) = 3

\* the stored entries in ascending order of their dates
RECURSIVE RefAscending(_)
RefAscending(entries) ==
  IF entries = {} THEN <<>>
  ELSE LET e == CHOOSE e \in entries : \A f \in entries : RefNotAfter(e.date, f.date)
       IN  <<e>> \o RefAscending(entries \ {e})

\* C20: detailedHistory is a function of the set of day entries, the rate, the
\* anchor and the regime: in whatever order the entries are stored, the rows
\* are those of the entries stored in ascending order, and the rows are in
\* ascending order of their dates.
C20_OrderIndependent ==
  /\ detailedHistory =
       computeDetailedDays(tz, RefAscending({dayHours[i] : i \in 1..Len(dayHours)}),
                           hourlyRate, startDate, useUnlawfulRule)
  /\ \A h \in detailedHistory : \A i \in 1..Len(h) : \A j \in 1..Len(h) :
       i < j => h[i].date # h[j].date /\ RefNotAfter(h[i].date, h[j].date)

\* C20, its case: entries stored out of the order of their dates, in a week
\* whose overtime depends on the order of the days
C20_StoredOutOfOrder ==
  /\ ~useUnlawfulRule
  /\ \E i \in 1..Len(dayHours) : \E j \in 1..Len(dayHours) :
       /\ i < j
       /\ dayHours[i].date # dayHours[j].date
       /\ RefNotAfter(dayHours[j].date, dayHours[i].date)
       /\ getIndexInfo(tz, dayHours[i].date, startDate).weekIndex
            = getIndexInfo(tz, dayHours[j].date, startDate).weekIndex
  /\ \E h \in detailedHistory : \E i \in 1..Len(h) :
       h[i].earnings > (h[i].hours * hourlyRate * BonusFactor) \div MoneyScale + 1

\* the rows of a history whose dates are among the days of a period
RefRowsOfPeriod(history, period) ==
  {i \in 1..Len(history) : \E k \in 1..Len(period.days) : period.days[k].date = history[i].date}

\* a row of the summary shows the net and the take-home pay of the rule: under
\* the standard regime both are the sum of the after-tax amounts of the
\* period's days; under the special regime the net is what the deductions
\* leave of the earnings of the first 88 hours, and the take-home pay the net
\* plus the earnings of the hours above 88
RefNetAndTakeHome(row, history, period) ==
  LET rows == RefRowsOfPeriod(history, period)
      total == SumOver([i \in rows |-> history[i].hours], rows)
      threshold == BIWEEKLY_TAXFREE_THRESHOLD * HourScale
      first88 == Min(total, threshold) * hourlyRate * BonusFactor
      above88 == Max(0, total - threshold) * hourlyRate * BonusFactor
  IN  IF useUnlawfulRule
        THEN /\ \E tax \in round2Rate(first88, INCOME_TAX_RATE) :
                  \E ei \in round2Rate(first88, EMPLOYEE_INSURANCE_RATE) :
                    \E cpp \in round2Rate(first88, CPP_RATE) :
                      row.displayNet \in round2(first88 - MoneyScale * (tax + ei + cpp))
             /\ row.displayTakeHome = <<row.displayNet, above88>>
             /\ total <= threshold => row.displayTakeHome = <<row.displayNet, 0>>
        ELSE /\ row.displayNet = SumOver([i \in rows |-> history[i].afterTax], rows)
             /\ row.displayTakeHome = <<row.displayNet, 0>>

\* C18: in every period row, under the standard regime Net and Take-Home Pay
\* are both the sum of the after-tax amounts of the period's days; under the
\* special regime Net is the after-deduction amount of the earnings of the
\* first 88 hours of the period and Take-Home Pay is Net plus the undeducted
\* earnings of the hours above 88, so the two differ only above 88 hours.
C18_NetAndTakeHome ==
  \A h \in detailedHistory : \A cycle \in PaymentCycles :
    LET summary == Summarize(tz, h, cycle, startDate)
    IN  \A n \in 1..Len(summary) :
          \A row \in SummaryRows(tz, summary[n], h, hourlyRate, useUnlawfulRule, startDate) :
            RefNetAndTakeHome(row, h, summary[n])

\* C18, its case: under the special regime a period above 88 hours whose
\* take-home pay is above its net
C18_PeriodAboveThreshold ==
  /\ useUnlawfulRule
  /\ \E h \in detailedHistory : \E summary \in {Summarize(tz, h, payCycle, startDate)} :
       \E n \in 1..Len(summary) :
         /\ summary[n].hours > BIWEEKLY_TAXFREE_THRESHOLD * HourScale
         /\ \E row \in SummaryRows(tz, summary[n], h, hourlyRate, useUnlawfulRule, startDate) :
              row.displayTakeHome[2] > 0 /\ row.displayNet > 0

\* the enabled items and, among them, the taxable ones
RefEnabled == {i \in 1..Len(items) : items[i].enabled}
RefTaxed == {i \in RefEnabled : items[i].taxable}

\* the price of the enabled items plus 0.117 of the price of the enabled
\* taxable ones, in thousandths of a cent
RefItemCost ==
  SumOver([i \in RefEnabled |-> items[i].price * 1000], RefEnabled)
    + SumOver([i \in RefTaxed |-> items[i].price * 117], RefTaxed)

\* the after-tax amounts of all rows of a history, in cents
RefEarned(history) ==
  SumOver([i \in 1..Len(history) |-> history[i].afterTax], 1..Len(history))

\* min(100, round2(earned / cost * 100)) in hundredths of a percent, for
\* earned * scale and cost in the same unit; 0 when the cost is not above 0
RefProgress(earned, scale, cost) ==
  IF cost > 0
    THEN {Min(10000, p) :
            p \in MathRound((earned * scale * 10000) \div cost,
                            (earned * scale * 10000) % cost, cost)}
  ELSE {0}

RefPricesNotNegative == \A i \in 1..Len(items) : items[i].price >= 0

\* the progress is the one of the rule for the cost as summed, not rounded
C19_ProgressOfExactCost ==
  RefPricesNotNegative =>
    \A h \in detailedHistory :
      \A earned \in totalEarnedAfterTaxOf(h) : \A cost \in totalAfterTaxItemPrice :
        progressPctOf(earned, cost) \subseteq RefProgress(RefEarned(h), 1000, RefItemCost)

\* C19: for prices not below 0, totalEarnedAfterTax is the sum of the
\* after-tax amounts of all day rows, the item cost is round2 of (the prices of
\* the enabled items plus 0.117 of the prices of the enabled taxable items),
\* and progressPct is min(100, round2(earned / cost * 100)) when that cost is
\* above 0 and 0 otherwise; it is never above 100.
C19_ProgressOfRoundedCost ==
  RefPricesNotNegative =>
    /\ totalAfterTaxItemPrice
         = MathRound(RefItemCost \div 1000, RefItemCost % 1000, 1000)
    /\ \A h \in detailedHistory :
         /\ totalEarnedAfterTaxOf(h) = {RefEarned(h)}
         /\ \A cost \in totalAfterTaxItemPrice :
              progressPctOf(RefEarned(h), cost) = RefProgress(RefEarned(h), 1, cost)
    /\ \A p \in progressPct : p >= 0 /\ p <= 10000
    /\ RefItemCost = 0 => progressPct = {0}

\* C19, its case: earnings below the cost of a list with an enabled taxable
\* item, an enabled item that is not taxable and a disabled item with a price
C19_PartOfTheCostEarned ==
  /\ RefPricesNotNegative
  /\ \E i \in RefTaxed : items[i].price > 0
  /\ \E i \in RefEnabled \ RefTaxed : items[i].price > 0
  /\ \E i \in 1..Len(items) : ~items[i].enabled /\ items[i].price > 0
  /\ \E p \in progressPct : p > 0 /\ p < 10000

\* the entries of dayHours whose date is not in the displayed month
RefOtherMonths ==
  SelectSeq(dayHours, LAMBDA e : ~(e.date[1] = currentDate[1] /\ e.date[2] = currentDate[2]))

\* the three steps of the reset: asking, cancelling, confirming
RefResetSteps ==
  /\ resetMonthHours => dayHours' = dayHours /\ showResetConfirm'
  /\ cancelResetMonth => dayHours' = dayHours /\ ~showResetConfirm'
  /\ confirmResetMonth => dayHours' = RefOtherMonths /\ ~showResetConfirm'

\* C27: resetMonthHours only opens the confirmation and leaves dayHours as it
\* is; cancelling leaves dayHours as it is; confirmResetMonth removes exactly
\* the entries of the displayed month, keeps every entry of another month and
\* closes the confirmation.
C27_ResetMonthProtocol == [][RefResetSteps]_vars

\* C27, its case: the month was reset and the entry of another month is left
C27_OtherMonthKept ==
  /\ ~showResetConfirm
  /\ notification = "This month's hours reset"
  /\ dayHours = <<OtherMonthEntry>>

\* C30: every stored entry has hours that are null or within 0..24 and lunch
\* minutes that are null or a whole number within 0..180.
C30_StoredRanges ==
  \A i \in 1..Len(dayHours) :
    /\ IsNull(dayHours[i].hours)
         \/ (Val(dayHours[i].hours) >= 0 /\ Val(dayHours[i].hours) <= 24 * HourScale)
    /\ IsNull(dayHours[i].lunchMinutes) \/ Val(dayHours[i].lunchMinutes) \in 0..180

\* C30, its case: 200 minutes of lunch typed for a day with hours, stored as 180
C30_LunchAtUpperLimit ==
  \E i \in 1..Len(dayHours) :
    /\ dayHours[i].lunchMinutes = Some(180)
    /\ ~IsNull(dayHours[i].hours) /\ Val(dayHours[i].hours) > 0

\* C29: under the standard regime and for every pay cycle, in each period row
\* the overtime earnings obtained by running the weekly counters over the
\* period's days alone are those of the overtime hours the day rows of these
\* days were paid, so the row's regular plus overtime earnings are the sum of
\* the gross earnings of its day rows (each rounded to the cent).
C29_PeriodPassAgrees ==
  ~useUnlawfulRule =>
    \A h \in detailedHistory :
      LET summary == Summarize(tz, h, payCycle, startDate)
      IN  \A n \in 1..Len(summary) :
            \A row \in SummaryRows(tz, summary[n], h, hourlyRate, FALSE, startDate) :
              LET rows == RefRowsOfPeriod(h, summary[n])
                  paid == SumOver([i \in rows |-> PaidOvertime(h[i])], rows)
                  gross == SumOver([i \in rows |-> h[i].earnings], rows)
                  split == row.regularEarnings + row.overtimeEarnings
              IN  /\ row.overtimeEarnings = hourlyRate * OvertimeFactor * paid
                  /\ 2 * (split - MoneyScale * gross) <= MoneyScale * Cardinality(rows)
                  /\ 2 * (MoneyScale * gross - split) <= MoneyScale * Cardinality(rows)

\* the seven values shown for the active job
RefShown ==
  [items |-> items, hourlyRate |-> hourlyRate, payCycle |-> payCycle, dayHours |-> dayHours,
   startDate |-> startDate, currentDate |-> currentDate, roster |-> roster]

\* the list is not empty and exactly one of its jobs has the id activeJobId
RefOneActive ==
  /\ Len(jobs) >= 1
  /\ Cardinality({i \in 1..Len(jobs) : jobs[i].id = activeJobId}) = 1

\* removing the only job changes nothing; removing the active job of a longer
\* list makes the first of the other jobs active and shows what is stored for it
RefRemoveStep ==
  \A confirmed \in BOOLEAN :
    removeJob(activeJobId, confirmed) =>
      IF Len(jobs) = 1
        THEN <<jobs, activeJobId, RefShown, store>>' = <<jobs, activeJobId, RefShown, store>>
      ELSE confirmed =>
             LET rest == SelectSeq(jobs, LAMBDA j : j.id # activeJobId)
             IN  /\ jobs' = rest
                 /\ activeJobId' = rest[1].id
                 /\ \A key \in DOMAIN RefShown : store[rest[1].id][key] = <<RefShown'[key]>>

\* C22: after any sequence of addJob, removeJob, switchJob and importAllJobs
\* the job list is not empty and activeJobId is the id of exactly one job of
\* the list; removeJob on the only job is refused and changes nothing;
\* removing the active job makes the first remaining job active with the
\* bundle stored for it (a job added to a single job and then removed leaves
\* that job active).
C22_OneActiveJob == [](RefOneActive) /\ [][RefRemoveStep]_vars

\* C22, its case: a job was removed and the default job alone is left, active
C22_AddedJobRemoved ==
  /\ notification = "Removed job"
  /\ Len(jobs) = 1
  /\ jobs[1].id = DEFAULT_JOB_ID
  /\ activeJobId = DEFAULT_JOB_ID

\* an entry of an imported list that can be kept: an object with a string
\* name and a string id that is none of blankIds
RefUsable(job, blankIds) ==
  /\ ~IsNull(job)
  /\ ~IsNull(Val(job).id)
  /\ ~IsNull(Val(job).name)
  /\ Val(Val(job).id) \notin blankIds

\* the places of the entries kept: usable, with no usable entry of the same id
\* before them
RefKeptAt(list, blankIds) ==
  {i \in 1..Len(list) :
     /\ RefUsable(list[i], blankIds)
     /\ \A j \in 1..(i - 1) :
          RefUsable(list[j], blankIds) => Val(Val(list[j]).id) # Val(Val(list[i]).id)}

\* the jobs at the places K of a list, from place i on, in the order of the list
RECURSIVE RefPick(_, _, _)
RefPick(list, K, i) ==
  IF i > Len(list) THEN <<>>
  ELSE (IF i \in K THEN <<JobMeta(Val(Val(list[i]).id), Val(Val(list[i]).name))>> ELSE <<>>)
         \o RefPick(list, K, i + 1)

\* a step of importAllJobs keeps the entries of the rule, or refuses the file
\* and changes nothing when none is kept
RefImportStep(blankIds) ==
  \A payload \in Payloads :
    importAllJobs(payload) =>
      LET list == Val(payload.jobs)
          kept == RefPick(list, RefKeptAt(list, blankIds), 1)
      IN  IF kept = <<>>
            THEN /\ notification' = "Invalid import file"
                 /\ <<jobs, activeJobId, RefShown, store>>'
                      = <<jobs, activeJobId, RefShown, store>>
          ELSE jobs' = kept

\* the import keeps every entry whose id is not the empty string
C23_ImportKeepsNonEmptyIds == [][RefImportStep({""})]_vars

\* C23: a multi-job import keeps exactly the entries that have a string name
\* and a string id that is not blank (empty once trimmed) and not the id of an
\* entry kept before, in their order, and drops the others; when none is kept
\* the import is refused with a notification and the jobs, the active job, the
\* values shown and the stored data stay as they are.
C23_ImportKeepsNonBlankIds == [][RefImportStep({"", " "})]_vars

\* C23, its case: the file with a repeated id, a blank id, a null entry and a
\* name that is no string was imported, and one job is left of it
C23_MalformedEntriesDropped ==
  /\ notification = "Imported all jobs"
  /\ jobs = <<JobMeta(DEFAULT_JOB_ID, Str3495)>>

\* opening another job keeps the values shown under the job that is left and
\* shows the values kept under the job that is opened
RefSwitchStep ==
  \A i \in 1..Len(jobs) :
    (jobs[i].id # activeJobId /\ switchJob(jobs[i].id)) =>
      /\ store'[activeJobId] = Stringify(RefShown)
      /\ Stringify(RefShown') = store[jobs[i].id]

\* no step touches what is kept under a job that is neither left nor opened
RefOthersKept ==
  \A id \in DOMAIN store : (id # activeJobId /\ id # activeJobId') => store'[id] = store[id]

\* C21: job profiles are isolated across switches: with job A active and
\* showing the bundle X, opening job B, editing there and opening A again
\* shows exactly X; the edits made under B are what is shown when B is opened
\* next.
C21_ProfilesIsolated == [][RefSwitchStep /\ RefOthersKept]_vars

\* C28: a roster image whose file was chosen while job A was active does not
\* get into the roster of job B, shown or stored, when B was opened or added
\* before the file was read and compressed.
C28_ImageStaysInItsJob ==
  [][\A upload \in uploads : \A outcome \in {"compressed", "original", "failed"} :
       (upload.job # activeJobId /\ rosterFileRead(upload, outcome)) =>
         /\ roster' = roster
         /\ store'[activeJobId].roster = store[activeJobId].roster]_vars

\* the six values of a bundle that an import fills in
RefImportFields == {"items", "hourlyRate", "payCycle", "dayHours", "startDate", "roster"}

\* the documented default of each of them
RefDefault ==
  [items |-> defaultItems, hourlyRate |-> 1760, payCycle |-> "biweekly", dayHours |-> <<>>,
   startDate |-> Today, roster |-> EmptyRoster]

\* a field of an imported bundle is given and valid; raw is None when the file
\* holds no bundle for the job
RefGiven(raw, key) ==
  /\ ~IsNull(raw)
  /\ ~IsNull(Val(raw)[key])
  /\ key = "payCycle" => Val(Val(raw)[key]) \in {"biweekly", "semi-monthly", "monthly"}

\* the value a field has after the import: the one given, else the default
RefImported(raw, key) == IF RefGiven(raw, key) THEN Val(Val(raw)[key]) ELSE RefDefault[key]

\* C24: on every import path, the file of all jobs and the file of a single
\* bundle, a field of a bundle that is missing or of the wrong type gets its
\* documented default (default items, hourly rate 17.6, empty list of days,
\* today as start date, biweekly pay cycle, empty roster) whatever the other
\* fields are, and the valid fields of the bundle are imported as given.
C24_ImportDefaultsPerField ==
  [][\A parsed \in ImportFiles :
       (handleImportFile(parsed) /\ ~IsNull(parsed)) =>
         IF IsAllJobsFile(Val(parsed))
           THEN notification' = "Imported all jobs" =>
                  /\ \A key \in RefImportFields :
                       RefShown'[key]
                         = RefImported(JobDataOf(Val(parsed).jobData, activeJobId'), key)
                  /\ \A i \in 1..Len(jobs') : \A key \in RefImportFields :
                       store'[jobs'[i].id][key]
                         = <<RefImported(JobDataOf(Val(parsed).jobData, jobs'[i].id), key)>>
         ELSE \A key \in RefImportFields : RefShown'[key] = RefImported(parsed, key)]_vars

\* a stored text is absent, the text "null" or no JSON
RefBroken(text) == Len(text) # 1

\* C25: loading a job whose stored value for any key is absent, unparsable
\* JSON or JSON null raises nothing: loadJobData, getInitialJobs and
\* getInitialActiveJobId give the documented default of that field, and the
\* stored values of the other fields are still used.
C25_BrokenKeysGetDefaults ==
  [][\A jobsText \in JobsTexts, activeText \in ActiveTexts :
       \A b \in BrokenBundles(store[activeJobId']) :
         App(jobsText, activeText, [store EXCEPT ![activeJobId'] = b]) =>
           /\ jobs' = IF RefBroken(jobsText) THEN <<JobMeta(DEFAULT_JOB_ID, DEFAULT_JOB_NAME)>>
                      ELSE jobsText[1]
           /\ activeJobId' = IF RefBroken(activeText) \/ activeText[1] \notin JobIdsOf(jobs')
                               THEN jobs'[1].id ELSE activeText[1]
           /\ \A key \in DOMAIN b :
                RefShown'[key]
                  = IF RefBroken(b[key]) THEN createDefaultJobData[key] ELSE b[key][1]]_vars

\* the state held in memory: the jobs, the active job and the values shown
RefMemory == <<jobs, activeJobId, RefShown>>

\* what each handler that reads nothing from the store leaves in memory when
\* the store takes its writes
RefMemorySteps ==
  /\ \A rate \in {1760, 2500} :
       setHourlyRate(rate)
         => RefMemory' = <<jobs, activeJobId, [RefShown EXCEPT !.hourlyRate = rate]>>
  /\ \A cycle \in PaymentCycles :
       setPayCycle(cycle)
         => RefMemory' = <<jobs, activeJobId, [RefShown EXCEPT !.payCycle = cycle]>>
  /\ \A now \in ItemClock :
       addItem(now)
         => RefMemory' = <<jobs, activeJobId,
                           [RefShown EXCEPT !.items = Append(items, Item(now, 0, TRUE, TRUE))]>>
  /\ \A i \in 1..Len(items) :
       removeItem(items[i].id)
         => RefMemory' = <<jobs, activeJobId,
                           [RefShown EXCEPT
                              !.items = SelectSeq(items, LAMBDA it : it.id # items[i].id)]>>
  /\ \A jobId \in {"job_1"} \ JobIdsOf(jobs) :
       addJob(Some(<<>>), jobId)
         => RefMemory' = <<Append(jobs, JobMeta(jobId, DefaultJobName(Len(jobs) + 1))), jobId,
                           createDefaultJobData>>
  /\ \A payload \in Payloads :
       (importAllJobs(payload) /\ notification' = "Imported all jobs")
         => /\ jobs' = RefPick(Val(payload.jobs), RefKeptAt(Val(payload.jobs), {"", " "}), 1)
            /\ \A key \in RefImportFields :
                 RefShown'[key] = RefImported(JobDataOf(payload.jobData, activeJobId'), key)

\* C26: a failing store write does not propagate: when every write fails
\* (full storage), the first render and every handler complete, and after any
\* sequence of handlers that load nothing from the store the state in memory
\* is what it is with a working store.
C26_FullStoreSameMemory == [](quota /\ RefOneActive) /\ [][RefMemorySteps]_vars

\* C26, its case: under a full storage a job was added and its hourly rate
\* set, and nothing was written
C26_EditedWithFullStore ==
  /\ quota
  /\ Len(jobs) = 2
  /\ hourlyRate = 2500
  /\ \A id \in JobIds : store[id] = AbsentBundle
====
